---------------------------- MODULE Spec2Model ----------------------------
(***************************************************************************)
(* Model of the match orchestrator of predestination-station               *)
(* (src/judge_engine.py): Judge.check_latency, Judge.send_state,           *)
(* Judge.get_move, Judge.handle_move, Judge.end_game and the turn loop of  *)
(* main().                                                                 *)
(*                                                                         *)
(* The two agents are the environment: every HTTP call made by the judge   *)
(* gets a nondeterministic outcome (200, non-200, timeout, connection      *)
(* error) and, for /send-move, a nondeterministic JSON object body.        *)
(* The rules engine (case_closed_game.Game) is not part of src/: it is     *)
(* modelled from the specification (turn counter, per-agent heading and a  *)
(* nondeterministic result).                                               *)
(*                                                                         *)
(* The move log (game_str), the latency measurements and the prints are    *)
(* output only and are not modelled.  Locals of main() are kept over their *)
(* live range only: p1_move/p2_move are read for the last time at lines    *)
(* 273/310 and `validation` never leaves the block that assigns it.        *)
(***************************************************************************)
EXTENDS Integers, Sequences, FiniteSets, TLC

\* ------------------------------------------------------------------ bounds
\* The turn ceiling of main() (the literal 500 of judge_engine.py:348),
\* scaled down: the code only ever compares the turn counter with it.
MaxTurns == 3
\* The initial random-move allowance (the literal 5 of judge_engine.py:242-243),
\* scaled down: the code only tests it against 0 and decrements it.
InitRandom == 2

\* Exploration cap of the turn counter; never reached by the code as written
\* (the ceiling test ends the match first).
TurnCap == MaxTurns + 2

Players == {1, 2}

\* ------------------------------------------------------------- directions
Directions == {"UP", "DOWN", "LEFT", "RIGHT"}

\* Direction.<d>.value
DirValue(d) ==
    CASE d = "UP"    -> << 0, -1>>
      [] d = "DOWN"  -> << 0,  1>>
      [] d = "LEFT"  -> <<-1,  0>>
      [] d = "RIGHT" -> << 1,  0>>

\* (req_dx, req_dy) == (-cur_dx, -cur_dy)
IsOpposite(req, curDir) ==
    DirValue(req) = << -DirValue(curDir)[1], -DirValue(curDir)[2] >>

\* --------------------------------------------------------------- payloads
\* A JSON value found under the key 'move'.  A string is kept as the list
\* of its ':'-separated parts (what str.split(':') returns).
NoneMove     == [t |-> "none", n |-> 0, parts |-> <<>>]
NumMove(k)   == [t |-> "num",  n |-> k, parts |-> <<>>]
StrMove(ps)  == [t |-> "str",  n |-> 0, parts |-> ps]

LowerTokens == {"up", "down", "left", "right"}

StrMoves ==
    {StrMove(<<d>>) : d \in Directions}
    \cup {StrMove(<<d, "BOOST">>) : d \in Directions}
    \cup {StrMove(<<d, "FOO">>) : d \in Directions}
    \cup {StrMove(<<d>>) : d \in LowerTokens}
    \cup {StrMove(<<"right", "boost">>), StrMove(<<"FOO">>), StrMove(<<"">>),
          StrMove(<<"", "BOOST">>), StrMove(<<"UP", "BOOST", "FOO">>),
          StrMove(<<"FOO", "BOOST">>)}

\* the values an agent may put under 'move' (None: key absent or null)
MoveValues == {NoneMove, NumMove(0), NumMove(7)} \cup StrMoves

\* outcome of one HTTP call
HttpOutcomes == {"ok", "non200", "timeout", "connerr"}

\* requests.RequestException / requests.Timeout is raised
Raises(o) == o \in {"timeout", "connerr"}

\* a /send-move exchange: the outcome and, on 200, the body's 'move'
Responses ==
    {[kind |-> k, move |-> NoneMove] : k \in HttpOutcomes \ {"ok"}}
    \cup {[kind |-> "ok", move |-> m] : m \in MoveValues}

\* str.upper() on one part
Upper(p) ==
    CASE p = "up"    -> "UP"
      [] p = "down"  -> "DOWN"
      [] p = "left"  -> "LEFT"
      [] p = "right" -> "RIGHT"
      [] p = "boost" -> "BOOST"
      [] OTHER       -> p

\* Python truthiness of a returned move: `if p1_move:`
Truthy(m) ==
    CASE m.t = "none" -> FALSE
      [] m.t = "num"  -> m.n # 0
      [] m.t = "str"  -> m.parts # <<"">>


\* ------------------------------------------------------- Judge.get_move
\* what get_move returns for one exchange: move.get('move') on 200, else None
GetMove(resp) ==
    IF resp.kind = "ok" THEN resp.move ELSE NoneMove

\* ---------------------------------------------------- Judge.handle_move
Forfeit == [kind |-> "forfeit", boost |-> FALSE, direction |-> "NONE"]

\* move.upper().split(':')
MoveParts(move) == [i \in 1..Len(move.parts) |-> Upper(move.parts[i])]

\* handle_move without the opposite-direction substitution of lines 197-201
HandleMove_NoCorrection(move, curDir) ==
    IF move.t # "str" THEN Forfeit
    ELSE LET move_parts    == MoveParts(move)
             direction_str == move_parts[1]
             use_boost     == Len(move_parts) > 1 /\ move_parts[2] = "BOOST"
         IN  IF direction_str \notin Directions THEN Forfeit
             ELSE [kind |-> "ok", boost |-> use_boost, direction |-> direction_str]

\* the validation handle_move returns: "forfeit" or (True, use_boost, direction)
HandleMove(move, curDir) ==
    IF move.t # "str" THEN Forfeit
    ELSE LET move_parts    == MoveParts(move)
             direction_str == move_parts[1]
             use_boost     == Len(move_parts) > 1 /\ move_parts[2] = "BOOST"
         IN  IF direction_str \notin Directions THEN Forfeit
             ELSE [kind      |-> "ok",
                   boost     |-> use_boost,
                   direction |-> IF IsOpposite(direction_str, curDir)
                                 THEN curDir ELSE direction_str]

\* `not p1_move or not validation` (lines 273, 310); a validation is the
\* string "forfeit" or a 3-tuple, both truthy
NeedsFallback(move, validation) ==
    ~Truthy(move) \/ validation \notin ({Forfeit} \cup
        [kind : {"ok"}, boost : BOOLEAN, direction : Directions])

\* ------------------------------------------------------------ RandomPlayer
\* RandomPlayer.get_possible_moves: what random.choice draws from
GetPossibleMoves == {"UP", "DOWN", "LEFT", "RIGHT"}

\* --------------------------------------------------------------- main()
\* a forfeit that names the forfeiting agent as the winner
ForfeitResult_Self(player) == IF player = 1 THEN "AGENT1_WIN" ELSE "AGENT2_WIN"

\* a forfeit that is ended as a draw
ForfeitResult_Draw(player) == "DRAW"

\* the result a forfeit of `player` is ended with (lines 263, 285, 300, 322)
ForfeitResult(player) == IF player = 1 THEN "AGENT2_WIN" ELSE "AGENT1_WIN"

\* a for loop over range(1, 4)
LastAttempt_ThreeTries(a) == a >= 3

\* range(1, 3) is used up after this attempt
LastAttempt(a) == a >= 2

\* a ceiling test that is never true
CeilingReached_Never(t) == FALSE

\* a ceiling test with > in place of >=
CeilingReached_OffByOne(t) == t > MaxTurns

\* judge.game.turns >= 500
CeilingReached(t) == t >= MaxTurns

\* check_latency without the `return False` of the second probe
CheckLatencyOk_FirstOnly(r1, r2) == r1 = "ok"

\* check_latency's return value from the two probes' outcomes
CheckLatencyOk(r1, r2) == r1 = "ok" /\ r2 = "ok"

\* the end tests with the ceiling looked at first
EndTest_CeilingFirst(r, t) ==
    IF CeilingReached(t) THEN "ceiling"
    ELSE IF r # "None" THEN "engine"
    ELSE "none"

\* end tests that never end the match
EndTest_NeverEnds(r, t) == "none"

\* lines 341-352: the end tests after a step that returned r and left the
\* turn counter at t; which end_game call is made, if any
EndTest(r, t) ==
    IF r # "None" THEN "engine"
    ELSE IF CeilingReached(t) THEN "ceiling"
    ELSE "none"

\* a used random move that is charged twice
UseRandom_Twice(k) == k - 2

\* send_state's return value: response.status_code == 200
SendStateOk(o) == o = "ok"

\* a random move that is not charged to the allowance
UseRandom_Keep(k) == k

\* the decrement of a used random move (lines 278, 315)
UseRandom(k) == k - 1

\* ------------------------------------------------------- rules engine
\* Game.step's possible results (None: the match goes on)
StepResults == {"None", "AGENT1_WIN", "AGENT2_WIN", "DRAW"}

\* the heading of an agent after it was stepped with direction d: a reversal
\* is not a movement, every other direction becomes the heading
EngineHeading(h, d) == IF IsOpposite(d, h) THEN h ELSE d


\* ------------------------------------------------------------------ state
VARIABLES
    pc,           \* main()'s position: "connect", "push0", "req", "handle",
                  \*   "fallback", "resolve", "end", "done"
    cur,          \* the player whose block of the turn loop is running
    attempt,      \* the for loop's attempt number
    p_random,     \* p1_random, p2_random
    p_move,       \* p1_move, p2_move
    p_direction,  \* p1_direction, p2_direction ("NONE": not assigned)
    p_boost,      \* p1_boost, p2_boost
    turns,        \* judge.game.turns
    heading,      \* judge.game.agent1.direction, judge.game.agent2.direction
    stepped,      \* what the last game.step returned ("None": no result)
    result,       \* the result end_game is (to be) called with
    \* observations of what the judge did
    probes,       \* identity probes issued to each agent
    probeOutcome, \* their outcomes ("unsent": not probed)
    pushes,       \* /send-state posts issued to each agent
    requested,    \* whether a move request was ever issued to each agent
    reqs,         \* attempt numbers of the move requests of the running for loop
    lastResp,     \* outcome of the last move request of that loop
    how,          \* how each agent's move of this turn came about
    endCalls,     \* calls of end_game
    endPosts,     \* /end posts issued to each agent
    endReason     \* why the match ended

vars == <<pc, cur, attempt, p_random, p_move, p_direction, p_boost, turns,
          heading, stepped, result, probes, probeOutcome, pushes, requested, reqs,
          lastResp, how, endCalls, endPosts, endReason>>

gameVars == <<turns, heading, stepped>>
connectVars == <<probes, probeOutcome>>
endVars == <<endCalls, endPosts>>

Both(v) == [i \in Players |-> v]

\* ------------------------------------------- state of the agent processes
\* The agents are separate processes.  While the judge runs they are parked
\* (the judge only sees the outcome of its HTTP calls), and while one agent
\* is examined the judge is parked.
VARIABLES
    \* agent_floodfill.py
    LAST_POSTED_STATE, \* the dict of the last posted payload
    game_lock,         \* 0: free, otherwise the handler thread holding it
    GLOBAL_GAME,       \* the mirror: its fields set from a payload
    tpc,               \* each handler thread's position
    tdata,             \* each handler thread's request body
    tstate,            \* send_move's local copy of LAST_POSTED_STATE
    written            \* payloads LAST_POSTED_STATE.update() was run with

floodVars == <<LAST_POSTED_STATE, game_lock, GLOBAL_GAME, tpc, tdata, tstate,
               written>>

\* an empty dict
EmptyDict == <<>>

FloodParked ==
    /\ LAST_POSTED_STATE = EmptyDict
    /\ game_lock = 0
    /\ GLOBAL_GAME = EmptyDict
    /\ tpc = <<>>
    /\ tdata = <<>>
    /\ tstate = <<>>
    /\ written = {}

\* sample_agent.py
VARIABLES
    game_state,        \* the module's dict of the last pushed fields
    spc,               \* the /send-move handler's position in choose_action
    sreads             \* the push each read of that handler took its value from

sampleVars == <<game_state, spc, sreads>>

SampleParked ==
    /\ game_state = EmptyDict
    /\ spc = "parked"
    /\ sreads = <<>>

\* one call of a helper or of an evaluator: its arguments and what it returned
VARIABLES
    fin,               \* the arguments
    fout               \* the returned values, Pending before the call

fnVars == <<fin, fout>>

Pending == [done |-> FALSE]

FnParked ==
    /\ fin = <<>>
    /\ fout = Pending

\* agentc.py: the fields of the AgentC instance that choose_action reads
VARIABLES
    last_action,       \* self.last_action
    current_direction  \* self.current_direction, (dx, dy)

agentCVars == <<last_action, current_direction>>

\* AgentC.__init__ (lines 14-19)
AgentCParked ==
    /\ last_action = <<"RIGHT">>
    /\ current_direction = <<1, 0>>

agentVars == <<floodVars, sampleVars, fnVars, agentCVars>>

AgentsParked == FloodParked /\ SampleParked /\ FnParked /\ AgentCParked

\* everything but one agent's state
notFlood == <<vars, sampleVars, fnVars, agentCVars>>
notSample == <<vars, floodVars, fnVars, agentCVars>>
notFn == <<vars, floodVars, sampleVars, agentCVars>>
notAgentC == <<vars, floodVars, sampleVars>>

Init ==
    /\ pc = "connect"
    /\ cur = 1
    /\ attempt = 1
    /\ p_random = Both(InitRandom)
    /\ p_move = Both(NoneMove)
    /\ p_direction = Both("NONE")
    /\ p_boost = Both(FALSE)
    /\ turns = 0
    /\ heading \in [Players -> Directions]
    /\ stepped = "None"
    /\ result = "None"
    /\ probes = Both(0)
    /\ probeOutcome = Both("unsent")
    /\ pushes = Both(0)
    /\ requested = Both(FALSE)
    /\ reqs = <<>>
    /\ lastResp = "none"
    /\ how = Both("none")
    /\ endCalls = 0
    /\ endPosts = Both(0)
    /\ endReason = "none"
    /\ AgentsParked

\* main() returns without a match
Abort ==
    /\ pc' = "done"
    /\ UNCHANGED <<cur, attempt, p_random, p_move, p_direction, p_boost,
                   result, requested, reqs, lastResp, how, endReason>>

\* lines 247-253: the top of the turn loop
LoopTop ==
    /\ pc' = "req"
    /\ cur' = 1
    /\ attempt' = 1
    /\ p_move' = Both(NoneMove)
    /\ p_boost' = Both(FALSE)
    /\ p_direction' = Both("NONE")
    /\ reqs' = <<>>
    /\ lastResp' = "none"
    /\ how' = Both("none")

\* a call of end_game(r), after which main() only returns: its other locals
\* are dead from here on and are dropped
CallEndGame(r, why) ==
    /\ pc' = "end"
    /\ result' = r
    /\ endReason' = why
    /\ attempt' = 1
    /\ p_move' = Both(NoneMove)
    /\ p_boost' = Both(FALSE)
    /\ p_direction' = Both("NONE")
    /\ reqs' = <<>>
    /\ lastResp' = "none"
    /\ how' = Both("none")
    /\ UNCHANGED cur

\* the end of a player's block: on to player 2's block, or to game.step
NextBlock ==
    IF cur = 1
    THEN /\ pc' = "req"
         /\ cur' = 2
         /\ attempt' = 1
         /\ reqs' = <<>>
         /\ lastResp' = "none"
    ELSE /\ pc' = "resolve"
         /\ UNCHANGED <<cur, attempt, reqs, lastResp>>

\* Judge.check_latency and main()'s test of it
CheckLatency ==
    /\ pc = "connect"
    /\ \E r1, r2 \in HttpOutcomes :
         /\ probes' = [probes EXCEPT ![1] = @ + 1,
                                     ![2] = IF r1 = "ok" THEN @ + 1 ELSE @]
         /\ probeOutcome' = [probeOutcome EXCEPT ![1] = r1,
                                     ![2] = IF r1 = "ok" THEN r2 ELSE @]
         /\ IF CheckLatencyOk(r1, r2)
            THEN /\ pc' = "push0"
                 /\ UNCHANGED <<cur, attempt, p_random, p_move, p_direction,
                                p_boost, result, requested, reqs, lastResp,
                                how, endReason>>
            ELSE Abort
    /\ UNCHANGED agentVars
    /\ UNCHANGED <<gameVars, pushes, endVars>>

\* lines 235-243: the initial state push and the allowances
InitialPush ==
    /\ pc = "push0"
    /\ \E s1, s2 \in HttpOutcomes :
         /\ pushes' = [pushes EXCEPT ![1] = @ + 1,
                                     ![2] = IF SendStateOk(s1) THEN @ + 1 ELSE @]
         /\ IF ~SendStateOk(s1) \/ ~SendStateOk(s2)
            THEN Abort
            ELSE /\ LoopTop
                 /\ p_random' = Both(InitRandom)
                 /\ UNCHANGED <<result, requested, endReason>>
    /\ UNCHANGED agentVars
    /\ UNCHANGED <<gameVars, connectVars, endVars>>

\* lines 257-259, 270 (294-296, 307): one get_move of the for loop
RequestMove ==
    /\ pc = "req"
    /\ \E resp \in Responses :
         LET move == GetMove(resp) IN
         /\ p_move' = [p_move EXCEPT ![cur] = move]
         /\ lastResp' = resp.kind
         /\ IF Truthy(move)
            THEN /\ pc' = "handle"
                 /\ UNCHANGED attempt
            ELSE IF LastAttempt(attempt)
                 THEN /\ pc' = "fallback"   \* `not p1_move` holds
                      /\ UNCHANGED attempt
                 ELSE /\ pc' = "req"
                      /\ attempt' = attempt + 1
    /\ reqs' = Append(reqs, attempt)
    /\ requested' = [requested EXCEPT ![cur] = TRUE]
    /\ UNCHANGED agentVars
    /\ UNCHANGED <<cur, p_random, p_direction, p_boost, result, how, endReason,
                   gameVars, connectVars, pushes, endVars>>

\* lines 260-269 (297-306): validation of a returned move
HandleReturned ==
    /\ pc = "handle"
    /\ LET validation == HandleMove(p_move[cur], heading[cur]) IN
       IF validation = Forfeit
       THEN CallEndGame(ForfeitResult(cur), "token")
       ELSE /\ p_boost' = [p_boost EXCEPT ![cur] = validation.boost]
            /\ p_direction' = [p_direction EXCEPT ![cur] = validation.direction]
            /\ how' = [how EXCEPT ![cur] =
                         IF IsOpposite(MoveParts(p_move[cur])[1], heading[cur])
                         THEN "reverse" ELSE "move"]
            /\ p_move' = [p_move EXCEPT ![cur] = NoneMove]
            /\ IF NeedsFallback(p_move[cur], validation)
               THEN /\ pc' = "fallback"
                    /\ UNCHANGED <<cur, attempt, reqs, lastResp>>
               ELSE NextBlock
            /\ UNCHANGED <<result, endReason>>
    /\ UNCHANGED agentVars
    /\ UNCHANGED <<p_random, requested, gameVars, connectVars, pushes, endVars>>

\* lines 272-287 (309-324): both attempts gave no move.  The random
\* direction is also passed through handle_move (line 281), whose returned
\* validation is not read again: p1_direction stays what random.choice drew.
Fallback ==
    /\ pc = "fallback"
    /\ IF p_random[cur] > 0
       THEN /\ \E d \in GetPossibleMoves :
                 p_direction' = [p_direction EXCEPT ![cur] = d]
            /\ p_random' = [p_random EXCEPT ![cur] = UseRandom(@)]
            /\ p_boost' = [p_boost EXCEPT ![cur] = FALSE]
            /\ how' = [how EXCEPT ![cur] = "random"]
            /\ p_move' = [p_move EXCEPT ![cur] = NoneMove]
            /\ NextBlock
            /\ UNCHANGED <<result, endReason>>
       ELSE /\ CallEndGame(ForfeitResult(cur), "exhausted")
            /\ UNCHANGED p_random
    /\ UNCHANGED agentVars
    /\ UNCHANGED <<requested, gameVars, connectVars, pushes, endVars>>

\* lines 329-352: game.step, the two state pushes and the end tests
Resolve ==
    /\ pc = "resolve"
    /\ turns < TurnCap
    /\ turns' = turns + 1
    /\ heading' = [i \in Players |-> EngineHeading(heading[i], p_direction[i])]
    /\ pushes' = [i \in Players |-> pushes[i] + 1]
    /\ \E r \in StepResults :
         /\ stepped' = r
         /\ CASE EndTest(r, turns') = "engine"  -> CallEndGame(r, "engine")
              [] EndTest(r, turns') = "ceiling" -> CallEndGame("DRAW", "ceiling")
              [] OTHER -> /\ LoopTop
                          /\ UNCHANGED <<result, endReason>>
    /\ UNCHANGED agentVars
    /\ UNCHANGED <<p_random, requested, connectVars, endVars>>

\* Judge.end_game (lines 131-161) and main()'s return after it
EndGame ==
    /\ pc = "end"
    /\ \E o1, o2 \in HttpOutcomes :
         endPosts' = [endPosts EXCEPT ![1] = @ + 1,
                                      ![2] = IF Raises(o1) THEN @ ELSE @ + 1]
    /\ endCalls' = endCalls + 1
    /\ pc' = "done"
    /\ UNCHANGED agentVars
    /\ UNCHANGED <<cur, attempt, p_random, p_move, p_direction, p_boost, result,
                   requested, reqs, lastResp, how, endReason, gameVars,
                   connectVars, pushes>>

Next ==
    \/ CheckLatency
    \/ InitialPush
    \/ RequestMove
    \/ HandleReturned
    \/ Fallback
    \/ Resolve
    \/ EndGame

Spec == Init /\ [][Next]_vars


\* ------------------------------------------------------------ properties
LoopPcs == {"req", "handle", "fallback", "resolve"}
FailKinds == {"timeout", "connerr", "non200"}
Opponent(i) == IF i = 1 THEN 2 ELSE 1
WinOf(i) == IF i = 1 THEN "AGENT1_WIN" ELSE "AGENT2_WIN"

\* both attempts of the running for loop were made and gave no move
BothAttemptsFailed ==
    pc = "fallback" /\ reqs = <<1, 2>> /\ ~Truthy(p_move[cur])

\* the token is exactly DIRECTION or DIRECTION:BOOST (letter case aside,
\* which handle_move folds on purpose)
ExactToken(m) ==
    /\ m.t = "str"
    /\ \E d \in Directions :
          MoveParts(m) = <<d>> \/ MoveParts(m) = <<d, "BOOST">>

\* C1: in every turn and for each agent the judge issues at most 2 move
\* requests, numbered 1 then 2; the second one only after the first gave no
\* move; a timeout, a connection error and a non-200 response all yield "no
\* move"; and a failed attempt by itself leaves the allowances alone and
\* does not end the match.
C1_State ==
    /\ reqs \in {<<>>, <<1>>, <<1, 2>>}
    /\ (pc = "req" => attempt = Len(reqs) + 1)
    /\ (lastResp \in FailKinds => p_move[cur] = NoneMove /\ pc # "handle")
    /\ \A resp \in Responses :
         resp.kind \in FailKinds => GetMove(resp) = NoneMove

C1_Step ==
    /\ (Len(reqs') > Len(reqs) /\ reqs # <<>>) =>
          /\ reqs = <<1>> /\ reqs' = <<1, 2>>
          /\ ~Truthy(p_move[cur])
    /\ (pc = "req" /\ ~Truthy(p_move'[cur])) =>
          /\ p_random' = p_random
          /\ pc' \in {"req", "fallback"}
          /\ endCalls' = endCalls
          /\ result' = result

C1_TwoAttempts == []C1_State /\ [][C1_Step]_vars

C1_Witness ==
    /\ BothAttemptsFailed
    /\ lastResp = "timeout"
    /\ cur = 2
    /\ p_random = Both(InitRandom)

\* C2: an agent that fails both attempts with allowance 0 forfeits in that
\* turn: end_game is called with the opponent as winner and game.step is
\* not called for that turn.
C2_Step ==
    /\ (BothAttemptsFailed /\ p_random[cur] = 0) =>
          /\ pc' = "end"
          /\ result' = WinOf(Opponent(cur))
          /\ endReason' = "exhausted"
          /\ turns' = turns
    /\ (pc \in {"end", "done"}) => (turns' = turns /\ result' = result)

C2_State ==
    endReason = "exhausted" =>
        /\ pc \in {"end", "done"}
        /\ result = WinOf(Opponent(cur))
        /\ p_random[cur] = 0

C2_ForfeitAtZero == []C2_State /\ [][C2_Step]_vars

C2_Witness ==
    /\ pc = "done"
    /\ endReason = "exhausted"
    /\ cur = 2
    /\ result = "AGENT1_WIN"
    /\ endCalls = 1

\* C3: an agent that fails both attempts with allowance k > 0 does not end
\* the match: a direction is substituted, its allowance becomes k - 1 (the
\* other agent's is untouched) and the move handed to game.step for it has
\* boost = false.
C3_Step ==
    (BothAttemptsFailed /\ p_random[cur] > 0) =>
        /\ pc' \in {"req", "resolve"}
        /\ endCalls' = endCalls
        /\ result' = result
        /\ p_random'[cur] = p_random[cur] - 1
        /\ p_random'[Opponent(cur)] = p_random[Opponent(cur)]
        /\ p_direction'[cur] \in Directions
        /\ p_boost'[cur] = FALSE
        /\ how'[cur] = "random"

C3_State ==
    \A i \in Players :
        (pc = "resolve" /\ how[i] = "random") =>
            /\ p_boost[i] = FALSE
            /\ p_direction[i] \in Directions
            /\ p_random[i] < InitRandom

C3_RandomFallback == []C3_State /\ [][C3_Step]_vars

C3_Witness ==
    /\ pc = "resolve"
    /\ how[1] = "random"
    /\ how[2] = "move"
    /\ p_random[1] = InitRandom - 1
    /\ p_random[2] = InitRandom
    /\ p_boost[1] = FALSE

\* C4: a returned direction that is the exact reverse of the agent's current
\* heading is replaced by the heading: game.step gets the heading for that
\* agent, the agent does not forfeit and its allowance is unchanged.
C4_Step ==
    (/\ pc = "handle"
     /\ p_move[cur].t = "str"
     /\ MoveParts(p_move[cur])[1] \in Directions
     /\ IsOpposite(MoveParts(p_move[cur])[1], heading[cur])) =>
        /\ pc' \in {"req", "resolve"}
        /\ p_direction'[cur] = heading[cur]
        /\ p_random' = p_random
        /\ how'[cur] = "reverse"
        /\ endCalls' = endCalls

C4_State ==
    \A i \in Players :
        (pc = "resolve" /\ how[i] = "reverse") => p_direction[i] = heading[i]

C4_ReversalCorrected == []C4_State /\ [][C4_Step]_vars

C4_Witness ==
    /\ pc = "resolve"
    /\ how[2] = "reverse"
    /\ heading[2] = "RIGHT"
    /\ p_direction[2] = "RIGHT"
    /\ p_random = Both(InitRandom)


\* C5: a returned move is accepted only if it is exactly DIRECTION or
\* DIRECTION:BOOST; every other token handed to handle_move makes the agent
\* forfeit at once, the opponent being declared winner, with the allowance
\* untouched.
C5_Step ==
    (pc = "handle" /\ ~ExactToken(p_move[cur])) =>
        /\ pc' = "end"
        /\ result' = WinOf(Opponent(cur))
        /\ p_random' = p_random

C5_OnlyExactTokens == [][C5_Step]_vars

\* what the code does hold to: a non-string, or a string whose first
\* ':'-part is, once upper-cased, none of the four directions, forfeits
C5_UnknownDirectionForfeits ==
    [][(/\ pc = "handle"
        /\ \/ p_move[cur].t # "str"
           \/ MoveParts(p_move[cur])[1] \notin Directions) =>
            /\ pc' = "end"
            /\ result' = WinOf(Opponent(cur))
            /\ endReason' = "token"
            /\ p_random' = p_random]_vars

C5_Witness ==
    /\ pc = "done"
    /\ endReason = "token"
    /\ cur = 1
    /\ result = "AGENT2_WIN"

\* C6: a substituted random direction handed to game.step is never the
\* exact reverse of that agent's current heading.
C6_RandomIsLegal ==
    \A i \in Players :
        (pc = "resolve" /\ how[i] = "random") =>
            ~IsOpposite(p_direction[i], heading[i])

C6_Witness ==
    /\ pc = "resolve"
    /\ how[1] = "random"
    /\ heading[1] = "RIGHT"
    /\ p_direction[1] = "LEFT"

\* C7: the match always terminates.  Rank is a variant of main(): a natural
\* number that every step of the judge strictly decreases, and main() can
\* always take a step until it has returned; so every behaviour in which the
\* judge keeps running (every call returns or times out) reaches "done".
\* The turn counter never passes the ceiling, every pass of the turn loop
\* that comes back to its top has advanced the turn counter by one, and a
\* match that entered the turn loop ends through exactly one end_game.
BlockRank ==
    CASE pc = "req" /\ attempt = 1 -> 3
      [] pc = "req" /\ attempt # 1 -> 2
      [] pc = "handle"             -> 1
      [] pc = "fallback"           -> 0

Rank ==
    CASE pc = "done"     -> 0
      [] pc = "end"      -> 1
      [] pc = "resolve"  -> 2 + (MaxTurns - turns) * 9
      [] pc \in {"req", "handle", "fallback"} ->
            2 + (MaxTurns - turns) * 9 + (IF cur = 1 THEN 5 ELSE 1) + BlockRank
      [] pc = "push0"    -> 2 + (MaxTurns + 1) * 9
      [] pc = "connect"  -> 3 + (MaxTurns + 1) * 9

C7_LoopStep ==
    /\ Rank' < Rank
    /\ (pc \in LoopPcs /\ pc' = "req" /\ cur' = 1 /\ attempt' = 1) =>
          turns' = turns + 1
    /\ (pc \in LoopPcs /\ turns' # turns) =>
          (pc = "resolve" /\ turns' = turns + 1)

C7_Terminates ==
    /\ [](Rank >= 0 /\ turns <= MaxTurns)
    /\ [](pc # "done" => ENABLED Next)
    /\ [][C7_LoopStep]_vars
    /\ []((pc = "done" /\ requested[1]) => endCalls = 1)

C7_Witness ==
    /\ pc = "done"
    /\ endCalls = 1
    /\ turns = MaxTurns
    /\ p_random = Both(0)

\* C8: without a forfeit and without a terminal engine result the match
\* ends with DRAW exactly when the turn counter reaches the ceiling, and no
\* turn is played once the ceiling is reached.
C8_DrawAtCeiling ==
    /\ turns <= MaxTurns
    /\ (pc \in LoopPcs => turns < MaxTurns)
    /\ (turns = MaxTurns => pc \in {"end", "done"} /\ endReason \in {"engine", "ceiling"})
    /\ ((pc \in {"end", "done"} /\ endReason \notin {"none", "token", "exhausted", "engine"})
          => result = "DRAW" /\ turns = MaxTurns /\ endReason = "ceiling")

C8_Witness ==
    /\ pc = "done"
    /\ endReason = "ceiling"
    /\ result = "DRAW"
    /\ turns = MaxTurns
    /\ endCalls = 1

\* C9: on every END path end_game posts the final state to /end exactly
\* once for agent 1 and exactly once for agent 2, also when one of the two
\* deliveries times out or fails to connect.
C9_BothNotified ==
    (pc = "done" /\ endCalls > 0) => endPosts = Both(1)

\* what the code does hold to: agent 1 is always notified once, agent 2 at
\* most once, and the result end_game was called with is not changed
C9_Agent1Notified ==
    /\ (pc = "done" /\ endCalls > 0) => (endPosts[1] = 1 /\ endPosts[2] <= 1)
    /\ endCalls <= 1

C9_Witness ==
    /\ pc = "done"
    /\ endCalls = 1
    /\ endPosts = <<1, 0>>
    /\ endReason = "exhausted"

\* C10: if the identity probe of either agent fails, the match never
\* starts: no state push, no move request, no game.step and no /end post.
ProbeFailed ==
    \E i \in Players : probeOutcome[i] \in FailKinds

C10_NoMatchWithoutConnect ==
    ProbeFailed =>
        /\ pc = "done"
        /\ pushes = Both(0)
        /\ requested = Both(FALSE)
        /\ turns = 0
        /\ endCalls = 0
        /\ endPosts = Both(0)

C10_Witness ==
    /\ pc = "done"
    /\ probeOutcome = <<"ok", "timeout">>
    /\ probes = <<1, 1>>

\* C11: a failed state push never ends the match, the push that precedes
\* the first turn included: whatever the two initial pushes return, main()
\* goes on to the turn loop and requests moves.
C11_PushNeverFatal ==
    [][pc = "push0" => pc' = "req"]_vars

\* the aborted match: agent 1's initial push failed, agent 2 was never
\* pushed, no move was requested and nobody was told the match is over
C11_Witness ==
    /\ pc = "done"
    /\ probeOutcome = <<"ok", "ok">>
    /\ pushes = <<1, 0>>
    /\ requested = Both(FALSE)
    /\ turns = 0
    /\ endCalls = 0

\* what does hold: a push made inside the turn loop (its result is not
\* looked at) is always followed by the next turn or by end_game
C11_TurnPushNotFatal ==
    [][pc = "resolve" => pc' \in {"req", "end"}]_vars


\* ======================================================================
\* agent_floodfill.py: the Flask handlers and the lock
\* ======================================================================

\* the judge process is not part of an agent's state
JudgeParked ==
    /\ pc = "done"
    /\ cur = 1
    /\ attempt = 1
    /\ p_random = Both(0)
    /\ p_move = Both(NoneMove)
    /\ p_direction = Both("NONE")
    /\ p_boost = Both(FALSE)
    /\ turns = 0
    /\ heading = Both("RIGHT")
    /\ stepped = "None"
    /\ result = "None"
    /\ probes = Both(0)
    /\ probeOutcome = Both("unsent")
    /\ pushes = Both(0)
    /\ requested = Both(FALSE)
    /\ reqs = <<>>
    /\ lastResp = "none"
    /\ how = Both("none")
    /\ endCalls = 0
    /\ endPosts = Both(0)
    /\ endReason = "none"

\* ---- bounds
NumThreads == 2      \* handler threads of the threaded Flask server
MaxPush == 2         \* distinct payloads of each kind the judge may post

Threads == 1..NumThreads

\* A payload is a dict; the value of every key is tagged with the number of
\* the push it belongs to.  Judge.send_state's payload carries
\* player_number, Judge.end_game's carries result instead.
StateKeys == {"board", "turn_count", "player_number"}
EndKeys == {"board", "turn_count", "result"}
MirrorKeys == {"board", "turn_count"}

StatePayload(n) == [k \in StateKeys |-> n]
EndPayload(n) == [k \in EndKeys |-> n]

Payloads ==
    {StatePayload(n) : n \in 1..MaxPush} \cup {EndPayload(n) : n \in 1..MaxPush}

\* request.get_json(): a payload, or an empty body
Bodies == Payloads \cup {EmptyDict}

\* dict.update(data)
DictUpdate(d, data) ==
    [k \in (DOMAIN d) \cup (DOMAIN data) |->
        IF k \in DOMAIN data THEN data[k] ELSE d[k]]

\* dict.clear()
DictClear(d) == EmptyDict

\* `with game_lock:` may be entered
LockFree_NoLock(l) == TRUE

LockFree(l) == l = 0

\* the fields _update_local_game_from_post mirrors into GLOBAL_GAME
Mirror(g, data) ==
    DictUpdate(g, [k \in (DOMAIN data) \cap MirrorKeys |-> data[k]])

\* send_move's local `state` before the copy is made
NoState == [copied |-> FALSE, dict |-> EmptyDict, fresh |-> FALSE]

FloodInit ==
    /\ JudgeParked
    /\ AgentCParked
    /\ SampleParked
    /\ FnParked
    /\ LAST_POSTED_STATE = EmptyDict
    /\ game_lock = 0
    /\ GLOBAL_GAME = EmptyDict
    /\ tpc = [t \in Threads |-> "idle"]
    /\ tdata = [t \in Threads |-> EmptyDict]
    /\ tstate = [t \in Threads |-> NoState]
    /\ written = {}

\* _update_local_game_from_post is entered: `with game_lock:` (line 37)
EnterUpdate(t, data) ==
    /\ LockFree(game_lock)
    /\ game_lock' = t
    /\ tpc' = [tpc EXCEPT ![t] = "clear"]
    /\ tdata' = [tdata EXCEPT ![t] = data]
    /\ UNCHANGED <<LAST_POSTED_STATE, GLOBAL_GAME, tstate, written>>

\* POST /send-state (receive_state): an empty body is answered 400
ReceiveState(t) ==
    /\ tpc[t] = "idle"
    /\ \E data \in {StatePayload(n) : n \in 1..MaxPush} \cup {EmptyDict} :
         IF data = EmptyDict
         THEN UNCHANGED floodVars
         ELSE EnterUpdate(t, data)
    /\ UNCHANGED notFlood

\* POST /end (end_game): an empty body changes nothing
AgentEnd(t) ==
    /\ tpc[t] = "idle"
    /\ \E data \in {EndPayload(n) : n \in 1..MaxPush} \cup {EmptyDict} :
         IF data = EmptyDict
         THEN UNCHANGED floodVars
         ELSE EnterUpdate(t, data)
    /\ UNCHANGED notFlood

\* line 38: LAST_POSTED_STATE.clear()
UpdateClear(t) ==
    /\ tpc[t] = "clear"
    /\ LAST_POSTED_STATE' = DictClear(LAST_POSTED_STATE)
    /\ tpc' = [tpc EXCEPT ![t] = "update"]
    /\ UNCHANGED <<game_lock, GLOBAL_GAME, tdata, tstate, written>>
    /\ UNCHANGED notFlood

\* line 39: LAST_POSTED_STATE.update(data)
UpdateUpdate(t) ==
    /\ tpc[t] = "update"
    /\ LAST_POSTED_STATE' = DictUpdate(LAST_POSTED_STATE, tdata[t])
    /\ written' = written \cup {tdata[t]}
    /\ tpc' = [tpc EXCEPT ![t] = "mirror"]
    /\ UNCHANGED <<game_lock, GLOBAL_GAME, tdata, tstate>>
    /\ UNCHANGED notFlood

\* lines 41-64: the mirror, then the lock is released
UpdateMirror(t) ==
    /\ tpc[t] = "mirror"
    /\ GLOBAL_GAME' = Mirror(GLOBAL_GAME, tdata[t])
    /\ game_lock' = 0
    /\ tpc' = [tpc EXCEPT ![t] = "idle"]
    /\ tdata' = [tdata EXCEPT ![t] = EmptyDict]
    /\ UNCHANGED <<LAST_POSTED_STATE, tstate, written>>
    /\ UNCHANGED notFlood

\* GET /send-move (send_move): `with game_lock:` (line 272)
SendMove(t) ==
    /\ tpc[t] = "idle"
    /\ LockFree(game_lock)
    /\ game_lock' = t
    /\ tpc' = [tpc EXCEPT ![t] = "copy"]
    /\ UNCHANGED <<LAST_POSTED_STATE, GLOBAL_GAME, tdata, tstate, written>>
    /\ UNCHANGED notFlood

\* line 273: state = dict(LAST_POSTED_STATE), then the lock is released
MoveCopy(t) ==
    /\ tpc[t] = "copy"
    /\ tstate' = [tstate EXCEPT ![t] = [copied |-> TRUE,
                                        dict |-> LAST_POSTED_STATE,
                                        fresh |-> written = {}]]
    /\ game_lock' = 0
    /\ tpc' = [tpc EXCEPT ![t] = "choose"]
    /\ UNCHANGED <<LAST_POSTED_STATE, GLOBAL_GAME, tdata, written>>
    /\ UNCHANGED notFlood

\* lines 275-276: the move is computed from the copy and returned
ChooseMove(t) ==
    /\ tpc[t] = "choose"
    /\ tpc' = [tpc EXCEPT ![t] = "idle"]
    /\ tstate' = [tstate EXCEPT ![t] = NoState]
    /\ UNCHANGED <<LAST_POSTED_STATE, game_lock, GLOBAL_GAME, tdata, written>>
    /\ UNCHANGED notFlood

FloodNext ==
    \E t \in Threads :
        \/ ReceiveState(t)
        \/ AgentEnd(t)
        \/ UpdateClear(t)
        \/ UpdateUpdate(t)
        \/ UpdateMirror(t)
        \/ SendMove(t)
        \/ MoveCopy(t)
        \/ ChooseMove(t)

FloodSpec == FloodInit /\ [][FloodNext]_<<vars, agentVars>>

\* C12: whatever the interleaving of the /send-state, /end and /send-move
\* handlers, the copy a move is computed from is one complete payload that
\* was posted, or the empty dict of a server nothing was posted to yet:
\* never the cleared dict of an update in progress, never a mix of two
\* payloads.
C12_SnapshotIsOnePayload ==
    \A t \in Threads :
        tstate[t].copied =>
            \/ tstate[t].dict \in written
            \/ tstate[t].dict = EmptyDict /\ tstate[t].fresh

\* a move is being computed from push 1 while another handler, holding the
\* lock, has cleared the dict for the /end payload
C12_Witness ==
    /\ tpc[1] = "choose"
    /\ tstate[1].dict = StatePayload(1)
    /\ tpc[2] = "update"
    /\ tdata[2] = EndPayload(2)
    /\ LAST_POSTED_STATE = EmptyDict


\* ======================================================================
\* sample_agent.py: the Flask handlers around AgentW.choose_action
\* ======================================================================

\* the fields of game_state a move decision reads; the two agents' trails,
\* lengths and boosts are one field each
SampleKeys == {"board", "trails", "lengths", "boosts", "player_number"}

\* the payload of push n; 0 tags the module's initial dict (lines 22-34)
SamplePayload(n) == [k \in SampleKeys |-> n]

\* the reads of propose_moves, in program order: player_number (agentw.py
\* line 138), the trails (139), the board (142), the boosts (143), the own
\* trail again (145)
ProposeReads == <<"player_number", "trails", "board", "boosts", "trails">>

\* head_positions: the initial dict has empty trails, a pushed one has not
HeadKnown(reads) == reads[2] # 0

SampleInit ==
    /\ JudgeParked
    /\ AgentCParked
    /\ FloodParked
    /\ FnParked
    /\ game_state = SamplePayload(0)
    /\ spc = "idle"
    /\ sreads = <<>>

\* POST /send-state: game_state.update(data), no lock (lines 46-53)
SampleReceiveState ==
    /\ \E data \in {SamplePayload(n) : n \in 1..MaxPush} \cup {EmptyDict} :
         IF data = EmptyDict
         THEN UNCHANGED game_state
         ELSE game_state' = DictUpdate(game_state, data)
    /\ UNCHANGED <<spc, sreads>>
    /\ UNCHANGED notSample

\* POST /end: prints the result (lines 75-79)
SampleEndGame ==
    /\ UNCHANGED sampleVars
    /\ UNCHANGED notSample

\* GET /send-move: agent.choose_action(game_state) is handed the module's
\* dict itself (line 64); propose_moves' first read
SampleSendMove ==
    /\ spc = "idle"
    /\ sreads' = <<game_state[ProposeReads[1]]>>
    /\ spc' = "propose"
    /\ UNCHANGED game_state
    /\ UNCHANGED notSample

\* the next read of propose_moves
SampleRead ==
    /\ spc = "propose"
    /\ sreads' = Append(sreads, game_state[ProposeReads[Len(sreads) + 1]])
    /\ spc' = IF Len(sreads') = Len(ProposeReads) THEN "scan" ELSE "propose"
    /\ UNCHANGED game_state
    /\ UNCHANGED notSample

\* agentw.py lines 178-197: without a head the move is drawn at once; with
\* one, the lengths are read when a candidate's cell is next to the
\* opponent's head
SampleScan ==
    /\ spc = "scan"
    /\ \E headon \in BOOLEAN :
         sreads' = IF HeadKnown(sreads) /\ headon
                   THEN Append(sreads, game_state["lengths"])
                   ELSE sreads
    /\ spc' = "decided"
    /\ UNCHANGED game_state
    /\ UNCHANGED notSample

\* the move is returned (line 69)
SampleReturn ==
    /\ spc = "decided"
    /\ spc' = "idle"
    /\ sreads' = <<>>
    /\ UNCHANGED game_state
    /\ UNCHANGED notSample

SampleNext ==
    \/ SampleReceiveState
    \/ SampleEndGame
    \/ SampleSendMove
    \/ SampleRead
    \/ SampleScan
    \/ SampleReturn

SampleSpec == SampleInit /\ [][SampleNext]_<<vars, agentVars>>

\* C13: the /send-state and /send-move handlers of the sample agent do not
\* race on game_state: every field one move decision reads comes from one
\* and the same push.
C13_DecisionFromOnePush ==
    spc = "decided" => \A i, j \in 1..Len(sreads) : sreads[i] = sreads[j]

\* a decision made of push 1's player number and trails and push 2's
\* board, boosts and lengths
C13_Witness ==
    /\ spc = "decided"
    /\ sreads = <<1, 1, 2, 2, 2, 2>>


\* ======================================================================
\* the move evaluators' helpers (agent_floodfill.py, agents.py, agentw.py,
\* agentc.py).  A cell is <<x, y>>, x in 0..W-1, y in 0..H-1.
\* ======================================================================

\* Python's None
PyNone == "None"

\* None where a cell is expected (a head of an empty trail)
NoCell == <<>>

\* a trail's last cell, trail[-1], and the one before, trail[-2]
Last(trail) == trail[Len(trail)]
Prev(trail) == trail[Len(trail) - 1]

\* _torus(p, W, H)
Torus(p, W, H) == <<p[1] % W, p[2] % H>>

\* `if dx > 1: dx = -1` then `if dx < -1: dx = 1` (lines 110-113)
WrapNorm_NoWrap(dx) == dx

WrapNorm_Flipped(dx) == IF dx > 1 THEN 1 ELSE IF dx < -1 THEN -1 ELSE dx

WrapNorm(dx) == IF dx > 1 THEN -1 ELSE IF dx < -1 THEN 1 ELSE dx

\* lines 114-118: the name of a normalised step
DirOfDelta(dx, dy) ==
    IF dx = 1 /\ dy = 0 THEN "RIGHT"
    ELSE IF dx = -1 /\ dy = 0 THEN "LEFT"
    ELSE IF dx = 0 /\ dy = 1 THEN "DOWN"
    ELSE IF dx = 0 /\ dy = -1 THEN "UP"
    ELSE PyNone

\* agent_floodfill.py _infer_current_dir(trail, W, H)
InferCurrentDir(trail, W, H) ==
    IF Len(trail) < 2 THEN PyNone
    ELSE LET dx == WrapNorm(Last(trail)[1] - Prev(trail)[1])
             dy == WrapNorm(Last(trail)[2] - Prev(trail)[2])
         IN DirOfDelta(dx, dy)

\* agents.py infer_current_dir(trail, W, H), the same statements
S_InferCurrentDir(trail, W, H) ==
    IF Len(trail) < 2 THEN PyNone
    ELSE LET dx == WrapNorm(Last(trail)[1] - Prev(trail)[1])
             dy == WrapNorm(Last(trail)[2] - Prev(trail)[2])
         IN DirOfDelta(dx, dy)

\* agentc.py: `if abs(dx) > 1: dx = -1 if dx > 0 else 1`
WrapNormC(dx) ==
    IF (IF dx < 0 THEN -dx ELSE dx) > 1
    THEN (IF dx > 0 THEN -1 ELSE 1)
    ELSE dx

\* agentc.py AgentC._predict_opponent_direction(opponent_trail)
PredictOpponentDirection(trail) ==
    IF Len(trail) < 2 THEN PyNone
    ELSE << WrapNormC(Last(trail)[1] - Prev(trail)[1]),
            WrapNormC(Last(trail)[2] - Prev(trail)[2]) >>

\* ---- heading inference, called on its own
MaxW == 10           \* widest grid
MaxH == 6            \* highest grid
MinDim == 3          \* the smallest grid side on which a step is unambiguous

Cells(W, H) == (0..(W - 1)) \X (0..(H - 1))

\* trails of 0, 1 and 2 cells; the 2-cell ones are a step d from a cell a
InferInputs ==
    UNION {
        {[W |-> W, H |-> H, d |-> PyNone, trail |-> <<>>]}
        \cup {[W |-> W, H |-> H, d |-> PyNone, trail |-> <<a>>] :
                a \in Cells(W, H)}
        \cup {[W |-> W, H |-> H, d |-> d,
               trail |-> <<a, Torus(<<a[1] + DirValue(d)[1],
                                      a[2] + DirValue(d)[2]>>, W, H)>>] :
                a \in Cells(W, H), d \in Directions}
        : W \in MinDim..MaxW, H \in MinDim..MaxH }

InferInit ==
    /\ JudgeParked
    /\ AgentCParked
    /\ FloodParked
    /\ SampleParked
    /\ fin \in InferInputs
    /\ fout = Pending

InferCall ==
    /\ ~fout.done
    /\ fout' = [done |-> TRUE,
                flood |-> InferCurrentDir(fin.trail, fin.W, fin.H),
                s |-> S_InferCurrentDir(fin.trail, fin.W, fin.H),
                c |-> PredictOpponentDirection(fin.trail)]
    /\ UNCHANGED fin
    /\ UNCHANGED notFn

InferNext == InferCall

InferSpec == InferInit /\ [][InferNext]_<<vars, agentVars>>

\* C18: on every grid with W, H >= 3, for a trail whose last two cells are
\* a and wrap(a + d), d a unit direction (steps across a grid edge
\* included), heading inference returns d; for a trail of fewer than 2
\* cells it returns None.
C18_InferReturnsStep ==
    (fin \in InferInputs /\ fout.done) =>
        /\ fout.flood = fin.d
        /\ fout.s = fin.d
        /\ fout.c = IF fin.d = PyNone THEN PyNone ELSE DirValue(fin.d)

\* a step UP across the top edge of a 3 x 3 grid
C18_Witness ==
    /\ fin \in InferInputs
    /\ fout.done
    /\ fin.W = MinDim
    /\ fin.H = MinDim
    /\ fin.trail = <<<<0, 0>>, <<0, MinDim - 1>>>>
    /\ fout.flood = "UP"

\* C15: on a 10-wide grid heading inference returns RIGHT for the trail
\* [(5,5),(6,5)] and also RIGHT, not LEFT, for the wrap trail [(0,5),(9,5)].
C15_WrapTrailRight ==
    (fin \in InferInputs /\ fout.done /\ fin.W = 10) =>
        /\ fin.trail = <<<<5, 5>>, <<6, 5>>>> =>
               (fout.flood = "RIGHT" /\ fout.s = "RIGHT")
        /\ fin.trail = <<<<0, 5>>, <<9, 5>>>> =>
               (fout.flood = "RIGHT" /\ fout.s = "RIGHT")

\* C15 as the code has it: RIGHT for [(5,5),(6,5)]; the trail [(0,5),(9,5)]
\* is the step LEFT across the left edge and LEFT is returned; the wrap
\* trail that yields RIGHT is [(9,5),(0,5)].
C15_WrapTrailLeft ==
    (fin \in InferInputs /\ fout.done /\ fin.W = 10) =>
        /\ fin.trail = <<<<5, 5>>, <<6, 5>>>> =>
               (fout.flood = "RIGHT" /\ fout.s = "RIGHT")
        /\ fin.trail = <<<<0, 5>>, <<9, 5>>>> =>
               (fout.flood = "LEFT" /\ fout.s = "LEFT")
        /\ fin.trail = <<<<9, 5>>, <<0, 5>>>> =>
               (fout.flood = "RIGHT" /\ fout.s = "RIGHT")

C15_Witness ==
    /\ fin \in InferInputs
    /\ fout.done
    /\ fin.W = 10
    /\ fin.trail = <<<<0, 5>>, <<9, 5>>>>
    /\ fout.flood = "LEFT"


\* ---- boards and flood fill
\* A board is the set of its cells that are not 0 (board[y][x] != 0), on a
\* grid of COLS x ROWS cells.  agentw.py has the sizes as module constants
\* (COLS = 20, ROWS = 18), the other agents take them from the payload's
\* board; the model uses one small grid for all of them.
GridN == 3           \* the grid's height; it is one cell wider

COLS == GridN + 1
ROWS == GridN

\* _is_cell_free(board, p)
IsCellFree_InBounds(board, p, W, H) ==
    /\ 0 <= p[2] /\ p[2] < H
    /\ 0 <= p[1] /\ p[1] < W

IsCellFree(board, p, W, H) ==
    /\ 0 <= p[2] /\ p[2] < H
    /\ 0 <= p[1] /\ p[1] < W
    /\ p \notin board

\* the order `for dx, dy in [(1,0),(-1,0),(0,1),(0,-1)]` of _neighbors
NeighborDeltas == <<<<1, 0>>, <<-1, 0>>, <<0, 1>>, <<0, -1>>>>

\* _neighbors(p, W, H), visiting the steps in the order `deltas`
NeighborsIn(deltas, p, W, H) ==
    [i \in 1..Len(deltas) |->
        Torus(<<p[1] + deltas[i][1], p[2] + deltas[i][2]>>, W, H)]

\* limit=None
NoLimit == -1

\* `if limit is not None and c >= limit` (line 145)
LimitHit(limit, c) == limit # NoLimit /\ c >= limit

\* lines 142-146: the for loop over the neighbours ns of the popped cell,
\* from the i-th on; st holds q, seen, c and whether the loop returned
RECURSIVE FloodVisit(_, _, _, _, _, _, _)
FloodVisit(board, W, H, limit, ns, i, st) ==
    IF i > Len(ns) THEN st
    ELSE IF ns[i] \notin st.seen /\ IsCellFree(board, ns[i], W, H)
         THEN LET st2 == [q |-> Append(st.q, ns[i]),
                          seen |-> st.seen \cup {ns[i]},
                          c |-> st.c + 1,
                          ret |-> LimitHit(limit, st.c + 1)]
              IN IF st2.ret THEN st2
                 ELSE FloodVisit(board, W, H, limit, ns, i + 1, st2)
         ELSE FloodVisit(board, W, H, limit, ns, i + 1, st)

\* lines 140-147: `while q:`
RECURSIVE FloodLoop(_, _, _, _, _, _)
FloodLoop(board, W, H, limit, deltas, st) ==
    IF st.q = <<>> THEN st.c
    ELSE LET v == Head(st.q)
             st1 == FloodVisit(board, W, H, limit,
                               NeighborsIn(deltas, v, W, H), 1,
                               [st EXCEPT !.q = Tail(st.q)])
         IN IF st1.ret THEN st1.c
            ELSE FloodLoop(board, W, H, limit, deltas, st1)

\* the flood fill with the neighbours visited in the order `deltas`
FloodFillIn(deltas, board, start, W, H, limit) ==
    IF ~IsCellFree(board, start, W, H) THEN 0
    ELSE FloodLoop(board, W, H, limit, deltas,
                   [q |-> <<start>>, seen |-> {start}, c |-> 1, ret |-> FALSE])

\* agent_floodfill.py _flood_fill_count(board, start, W, H, limit=None)
FloodFillCount(board, start, W, H, limit) ==
    FloodFillIn(NeighborDeltas, board, start, W, H, limit)

\* agents.py flood_fill_count(board, start, W, H, limit=None): the same
\* statements over the same neighbors()
S_FloodFillCount(board, start, W, H, limit) ==
    FloodFillIn(NeighborDeltas, board, start, W, H, limit)

\* agentw.py: DIRS.values(), in the order UP, DOWN, LEFT, RIGHT
W_Deltas == <<DirValue("UP"), DirValue("DOWN"), DirValue("LEFT"),
              DirValue("RIGHT")>>

\* AgentW.neighbors(pos), wrapped by COLS and ROWS
W_Neighbors(pos) == NeighborsIn(W_Deltas, pos, COLS, ROWS)

\* agentw.py lines 104-108: the for loop over the neighbours of cur
RECURSIVE W_Visit(_, _, _, _)
W_Visit(occ, ns, i, st) ==
    IF i > Len(ns) THEN st
    ELSE IF ns[i] \in st.seen \/ ns[i] \in occ
         THEN W_Visit(occ, ns, i + 1, st)
         ELSE W_Visit(occ, ns, i + 1,
                      [q |-> Append(st.q, ns[i]),
                       seen |-> st.seen \cup {ns[i]}])

\* agentw.py lines 102-109: `while q and len(seen) < max_nodes:`
RECURSIVE W_Loop(_, _, _)
W_Loop(occ, max_nodes, st) ==
    IF st.q # <<>> /\ Cardinality(st.seen) < max_nodes
    THEN W_Loop(occ, max_nodes,
                W_Visit(occ, W_Neighbors(Head(st.q)), 1,
                        [st EXCEPT !.q = Tail(st.q)]))
    ELSE Cardinality(st.seen)

\* AgentW.flood_fill_area(start, occ, max_nodes=ROWS * COLS)
W_FloodFillArea(start, occ, max_nodes) ==
    IF start = NoCell \/ start \in occ THEN 0
    ELSE W_Loop(occ, max_nodes, [q |-> <<start>>, seen |-> {start}])

\* the free cells of the 4-connected torus component that contains the
\* cells of S: the least set closed under stepping to a free neighbour
RECURSIVE Closure(_, _, _, _)
Closure(board, S, W, H) ==
    LET S2 == S \cup {n \in Cells(W, H) :
                        /\ n \notin board
                        /\ \E v \in S, d \in Directions :
                             n = Torus(<<v[1] + DirValue(d)[1],
                                         v[2] + DirValue(d)[2]>>, W, H)}
    IN IF S2 = S THEN S ELSE Closure(board, S2, W, H)

Component(board, start, W, H) ==
    IF start \in board THEN {} ELSE Closure(board, {start}, W, H)


\* ---- flood fill without a limit, called on its own
MaxOcc == 4          \* occupied cells of a board

Boards == {b \in SUBSET Cells(COLS, ROWS) : Cardinality(b) <= MaxOcc}

\* orders in which the four neighbours may be visited
Orders ==
    {NeighborDeltas,
     <<NeighborDeltas[4], NeighborDeltas[2], NeighborDeltas[3],
       NeighborDeltas[1]>>}

\* the cells a fill is started from: the torus looks the same from every
\* cell, one cell of each row and column is taken
Starts == {<<k, k>> : k \in 0..(GridN - 1)}

FillInputs ==
    [board : Boards, start : Starts, deltas : Orders]

FillInit ==
    /\ JudgeParked
    /\ AgentCParked
    /\ FloodParked
    /\ SampleParked
    /\ fin \in FillInputs
    /\ fout = Pending

FillCall ==
    /\ ~fout.done
    /\ fout' = [done |-> TRUE,
                flood |-> FloodFillCount(fin.board, fin.start, COLS, ROWS,
                                         NoLimit),
                ord |-> FloodFillIn(fin.deltas, fin.board, fin.start, COLS,
                                    ROWS, NoLimit),
                s |-> S_FloodFillCount(fin.board, fin.start, COLS, ROWS,
                                       NoLimit),
                w |-> W_FloodFillArea(fin.start, fin.board, ROWS * COLS)]
    /\ UNCHANGED fin
    /\ UNCHANGED notFn

FillNext == FillCall

FillSpec == FillInit /\ [][FillNext]_<<vars, agentVars>>

\* C16: without a limit the flood fill from start returns the number of
\* free cells of the 4-connected torus component of start: W x H on a board
\* without obstacles, 0 when start is occupied, and the same number in
\* whatever order the neighbours are visited.
C16_FillIsComponent ==
    (fin \in FillInputs /\ fout.done) =>
        LET n == Cardinality(Component(fin.board, fin.start, COLS, ROWS)) IN
        /\ fout.flood = n
        /\ fout.ord = n
        /\ fout.s = n
        /\ fout.w = n
        /\ fin.board = {} => n = COLS * ROWS
        /\ fin.start \in fin.board => n = 0

\* start is walled in by its four neighbours: a component of one cell on
\* a board with free cells elsewhere
C16_Witness ==
    /\ fin \in FillInputs
    /\ fout.done
    /\ fin.start = <<1, 1>>
    /\ fin.board = {<<0, 1>>, <<2, 1>>, <<1, 0>>, <<1, 2>>}
    /\ fin.deltas # NeighborDeltas
    /\ fout.flood = 1
    /\ fout.ord = 1
    /\ fout.w = 1


\* ---- flood fill with a limit, called on its own
MaxLimit == 3        \* largest limit / max_nodes passed

CapInputs ==
    [board : Boards, start : Starts, limit : 1..MaxLimit]

CapInit ==
    /\ JudgeParked
    /\ AgentCParked
    /\ FloodParked
    /\ SampleParked
    /\ fin \in CapInputs
    /\ fout = Pending

CapCall ==
    /\ ~fout.done
    /\ fout' = [done |-> TRUE,
                flood |-> FloodFillCount(fin.board, fin.start, COLS, ROWS,
                                         fin.limit),
                s |-> S_FloodFillCount(fin.board, fin.start, COLS, ROWS,
                                       fin.limit),
                w |-> W_FloodFillArea(fin.start, fin.board, fin.limit)]
    /\ UNCHANGED fin
    /\ UNCHANGED notFn

CapNext == CapCall

CapSpec == CapInit /\ [][CapNext]_<<vars, agentVars>>

\* C19: for every board, free start cell and limit >= 1 the bounded flood
\* fill never returns more than the limit (limit of _flood_fill_count and
\* flood_fill_count, max_nodes of AgentW.flood_fill_area).
C19_CountWithinLimit ==
    (fin \in CapInputs /\ fout.done /\ fin.start \notin fin.board) =>
        /\ fout.flood <= fin.limit
        /\ fout.s <= fin.limit
        /\ fout.w <= fin.limit

\* max_nodes 2 on the empty board: AgentW takes all four neighbours of
\* start before it looks at max_nodes again.  (With limit 1 the two BFS
\* counters return 2: the first neighbour is counted before the limit is
\* looked at.)
C19_Witness ==
    /\ fin \in CapInputs
    /\ fout.done
    /\ fin.board = {}
    /\ fin.limit = 2
    /\ fout.flood = 2
    /\ fout.s = 2
    /\ fout.w = 5

\* what does hold: from limit 2 on the two BFS counters stop at the limit,
\* and AgentW's area exceeds max_nodes by at most 3
C19_CountNearLimit ==
    (fin \in CapInputs /\ fout.done) =>
        /\ fin.limit >= 2 => (fout.flood <= fin.limit /\ fout.s <= fin.limit)
        /\ fout.flood <= fin.limit + 1
        /\ fout.w <= fin.limit + 3


\* ---- territory (Voronoi) count
Min(a, b) == IF a < b THEN a ELSE b

\* torus_dist(a, b) of _voronoi_score, tdist(a, b, W, H) of agents.py
TorusDist(a, b, W, H) ==
    Min((a[1] - b[1]) % W, (b[1] - a[1]) % W)
    + Min((a[2] - b[2]) % H, (b[2] - a[2]) % H)

\* `if d_my < d_opp` (line 169)
Closer_Ties(d_my, d_opp) == d_my <= d_opp

Closer(d_my, d_opp) == d_my < d_opp

\* `if counted > cap` (line 164)
CapPassed(counted, cap) == counted > cap

\* lines 160-172: the two for loops, from the k-th cell in row-major order
RECURSIVE VoronoiScan(_, _, _, _, _, _, _, _, _)
VoronoiScan(board, my_head, opp_head, W, H, cap, k, counted, my_count) ==
    IF k >= W * H THEN my_count
    ELSE LET p == <<k % W, k \div W>> IN
         IF p \in board
         THEN VoronoiScan(board, my_head, opp_head, W, H, cap, k + 1,
                          counted, my_count)
         ELSE IF CapPassed(counted + 1, cap) THEN my_count
         ELSE VoronoiScan(board, my_head, opp_head, W, H, cap, k + 1,
                          counted + 1,
                          IF Closer(TorusDist(p, my_head, W, H),
                                    TorusDist(p, opp_head, W, H))
                          THEN my_count + 1 ELSE my_count)

\* agent_floodfill.py _voronoi_score(board, my_head, opp_head, W, H, cap)
VoronoiScore(board, my_head, opp_head, W, H, cap) ==
    VoronoiScan(board, my_head, opp_head, W, H, cap, 0, 0, 0)

\* agents.py voronoi_score(board, my_head, opp_head, W, H, cap): the same
\* loops, left by `return my_count` instead of the two breaks
S_VoronoiScore(board, my_head, opp_head, W, H, cap) ==
    VoronoiScan(board, my_head, opp_head, W, H, cap, 0, 0, 0)

\* ---- the territory count called on its own
VorOcc == 2          \* occupied cells of a board
MaxCap == 4          \* a cap below the number of free cells

VorBoards == {b \in SUBSET Cells(COLS, ROWS) : Cardinality(b) <= VorOcc}

\* caps: none and one cell, fewer than the free cells, all cells
Caps == {0, 1, MaxCap, COLS * ROWS}

VorInputs ==
    [board : VorBoards, my_head : Starts, opp_head : Cells(COLS, ROWS),
     cap : Caps]

VorInit ==
    /\ JudgeParked
    /\ AgentCParked
    /\ FloodParked
    /\ SampleParked
    /\ fin \in VorInputs
    /\ fout = Pending

VorCall ==
    /\ ~fout.done
    /\ fout' = [done |-> TRUE,
                flood |-> VoronoiScore(fin.board, fin.my_head, fin.opp_head,
                                       COLS, ROWS, fin.cap),
                s |-> S_VoronoiScore(fin.board, fin.my_head, fin.opp_head,
                                     COLS, ROWS, fin.cap)]
    /\ UNCHANGED fin
    /\ UNCHANGED notFn

VorNext == VorCall

VorSpec == VorInit /\ [][VorNext]_<<vars, agentVars>>

\* the distance on the torus: per axis the shorter way round
Abs(n) == IF n < 0 THEN -n ELSE n

WayRound(a, b, n) == Min(Abs(a - b), n - Abs(a - b))

Distance(a, b, W, H) == WayRound(a[1], b[1], W) + WayRound(a[2], b[2], H)

\* the place of a cell in row-major order
RowMajor(p, W) == p[2] * W + p[1]

\* the first cap free cells in row-major order
Inspected(board, W, H, cap) ==
    {p \in Cells(W, H) \ board :
        Cardinality({q \in Cells(W, H) \ board :
                        RowMajor(q, W) <= RowMajor(p, W)}) <= cap}

\* C17: the territory count is the number of cells, among the first cap
\* free cells in row-major order, that are strictly nearer on the torus to
\* myHead than to oppHead: later free cells are not inspected, ties count
\* for neither side, and the count is 0 when myHead = oppHead.
C17_VoronoiCount ==
    (fin \in VorInputs /\ fout.done) =>
        LET n == Cardinality(
                   {p \in Inspected(fin.board, COLS, ROWS, fin.cap) :
                      Distance(p, fin.my_head, COLS, ROWS)
                          < Distance(p, fin.opp_head, COLS, ROWS)})
        IN /\ fout.flood = n
           /\ fout.s = n
           /\ fin.my_head = fin.opp_head => n = 0

\* a cap that cuts the scan short: with all cells inspected more would be
\* counted
C17_Witness ==
    /\ fin \in VorInputs
    /\ fout.done
    /\ fin.cap = MaxCap
    /\ fin.board # {}
    /\ fin.my_head # fin.opp_head
    /\ fout.flood > 0
    /\ fout.flood < VoronoiScore(fin.board, fin.my_head, fin.opp_head,
                                 COLS, ROWS, COLS * ROWS)


\* ---- the scores' arithmetic
\* The evaluators compute their scores in Python floats (IEEE 754 doubles):
\* 1.2 * vscore is not 6/5 of vscore, and two scores that are equal as
\* fractions need not be equal as doubles.  A double x met here is held as
\* the pair [t, r] with x = t/10 + r * FUnit, FUnit = 2^-52 / (10 * 2^FShift):
\* t is the value in tenths, r the rounding error, and every operation
\* rounds to the nearest double (ties to even) as the hardware does.
FShift == 6

\* 2^j mod 10 for j >= 1, 2^j mod 20 for j >= 2
Pow2Mod10(j) == <<6, 2, 4, 8>>[(j % 4) + 1]
Pow2Mod20(j) == <<16, 12, 4, 8>>[(j % 4) + 1]

\* the exponent of t/10 + r * FUnit, t > 0: the k with 2^k <= x < 2^(k+1)
RECURSIVE FExpFrom(_, _)
FExpFrom(t, k) == IF 10 * 2^(k + 1 + FShift) <= t * 2^FShift
                  THEN FExpFrom(t, k + 1) ELSE k

FExp(t, r) ==
    LET k == FExpFrom(t, -FShift)
    IN IF 10 * 2^(k + FShift) = t * 2^FShift /\ r < 0 THEN k - 1 ELSE k

\* round a positive t/10 + r * FUnit to the nearest double
FRoundPos(t, r) ==
    LET k == FExp(t, r)
        M == 10 * 2^(k + FShift)                  \* one ulp, in FUnits
        rho == (2^(k + FShift) * ((t * Pow2Mod10(52 - k)) % 10) + r) % M
        odd == ((2^(k + FShift) * ((t * Pow2Mod20(52 - k)) % 20) + r - rho)
                  % (2 * M)) \div M
    IN IF 2 * rho < M \/ (2 * rho = M /\ odd = 0)
       THEN [t |-> t, r |-> r - rho]
       ELSE [t |-> t, r |-> r - rho + M]

FRound(t, r) ==
    IF t = 0 THEN [t |-> 0, r |-> 0]
    ELSE IF t > 0 THEN FRoundPos(t, r)
    ELSE LET p == FRoundPos(-t, -r) IN [t |-> -p.t, r |-> -p.r]

\* the double of a literal with one decimal, given in tenths (1.2 is 12)
FLit(tenths) == FRound(tenths, 0)

\* float(n) of an int n
FInt(n) == [t |-> 10 * n, r |-> 0]

\* w * n, w a double and n an int
FMul(w, n) == FRound(w.t * n, w.r * n)

\* x + y
FAdd(x, y) == FRound(x.t + y.t, x.r + y.r)

\* x < y
FLess(x, y) == x.t < y.t \/ (x.t = y.t /\ x.r < y.r)


\* ======================================================================
\* agent_floodfill.py: _choose_move
\* ======================================================================
\* A snapshot is the posted state: has_board (a board that is not None and
\* not empty), board, agent1_trail, agent2_trail, agent1_boosts,
\* agent2_boosts, turn_count and player_number.  A move is the sequence of
\* the ':'-separated parts of the returned string.

DIR_ORDER == <<"UP", "RIGHT", "DOWN", "LEFT">>

\* _reverse_dir(d)
ReverseDir(d) ==
    CASE d = "UP" -> "DOWN"
      [] d = "DOWN" -> "UP"
      [] d = "LEFT" -> "RIGHT"
      [] d = "RIGHT" -> "LEFT"
      [] OTHER -> PyNone

\* x or y, for a direction name or None
PyOr(x, y) == IF x = PyNone THEN y ELSE x

\* _simulate_step(board, pos, move_dir, W, H): (nxt, crashed)
SimulateStep(board, pos, move_dir, W, H) ==
    LET nxt == Torus(<<pos[1] + DirValue(move_dir)[1],
                       pos[2] + DirValue(move_dir)[2]>>, W, H)
    IN [pos |-> nxt, crash |-> nxt \in board]

\* [d for d in DIR_ORDER if d != _reverse_dir(dir)]
NotReversing(dir) ==
    SelectSeq(DIR_ORDER, LAMBDA d : d # ReverseDir(dir))

\* lines 218-226: the cells the opponent may enter next
OppFuture(board, opp_head, opp_dir, W, H) ==
    LET opp_opts == IF opp_dir # PyNone THEN NotReversing(opp_dir)
                    ELSE DIR_ORDER
    IN {SimulateStep(board, opp_head, opp_opts[j], W, H).pos :
            j \in 1..Len(opp_opts)}

\* the constants of _choose_move
F_FloodLimit == 300
F_VoronoiCap == 200
F_Danger == -400
F_StraightBonus == 10
F_ProbeSteps == 5
F_OpenDepth == 2
F_OpenTurnMin == 20
F_OpenTurnMax == 120
F_CrampedScore == 80
F_CrampedDepth == 1

\* -1e6, the score of a crashing step
F_CrashScore_Mild == FInt(-100)

F_CrashScore == FInt(-1000000)

\* best_score's initial -1e9, held as -1e8: ten times that in tenths is
\* the lowest number the arithmetic of the model checker has room for,
\* and it is below every score all the same
F_BestFloor == FInt(-100000000)

\* lines 204-234: the score of candidate d
F_Score(board, my_head, opp_head, my_dir, opp_dir, d, W, H) ==
    LET step == SimulateStep(board, my_head, d, W, H) IN
    IF step.crash THEN F_CrashScore
    ELSE LET area == FloodFillCount(board, step.pos, W, H, F_FloodLimit)
             vscore == VoronoiScore(board, step.pos, opp_head, W, H,
                                    F_VoronoiCap)
             danger == IF step.pos \in OppFuture(board, opp_head, opp_dir,
                                                 W, H)
                       THEN F_Danger ELSE 0
             straight_bonus == IF d = my_dir THEN F_StraightBonus ELSE 0
         IN FAdd(FAdd(FAdd(FMul(FLit(20), area), FMul(FLit(12), vscore)),
                      FInt(danger)),
                 FInt(straight_bonus))

\* `if score > best_score` (line 236)
Beats_OrEqual(score, best_score) == ~FLess(score, best_score)

Beats(score, best_score) == FLess(best_score, score)

\* the values f[1], ..., f[n], each computed once, as a list
ListOf(f, n) == SubSeq(f, 1, n)

\* lines 200-238: the loop over the candidates, from the i-th on; scores is
\* the sequence of the candidates' scores
RECURSIVE PickBest(_, _, _, _, _)
PickBest(candidates, scores, i, best, best_score) ==
    IF i > Len(candidates) THEN [best |-> best, best_score |-> best_score]
    ELSE IF Beats(scores[i], best_score)
         THEN PickBest(candidates, scores, i + 1, candidates[i], scores[i])
         ELSE PickBest(candidates, scores, i + 1, best, best_score)

\* lines 247-253: free cells ahead of pos in direction d, at most `steps`
RECURSIVE ProbeDepth(_, _, _, _, _, _)
ProbeDepth(board, pos, d, W, H, steps) ==
    IF steps = 0 THEN [depth |-> 0, probe |-> pos]
    ELSE LET step == SimulateStep(board, pos, d, W, H) IN
         IF step.crash THEN [depth |-> 0, probe |-> step.pos]
         ELSE LET rest == ProbeDepth(board, step.pos, d, W, H, steps - 1)
              IN [depth |-> rest.depth + 1, probe |-> rest.probe]

\* `if boosts > 0` (line 245)
HasBoost_Always(boosts) == TRUE

HasBoost(boosts) == boosts > 0

\* f"{chosen}:BOOST" if use_boost else chosen
MoveOf(chosen, use_boost) ==
    IF use_boost THEN <<chosen, "BOOST">> ELSE <<chosen>>

MyTrail(state, player_number) ==
    IF player_number = 1 THEN state.agent1_trail ELSE state.agent2_trail

OppTrail(state, player_number) ==
    IF player_number = 1 THEN state.agent2_trail ELSE state.agent1_trail

MyBoosts(state, player_number) ==
    IF player_number = 1 THEN state.agent1_boosts ELSE state.agent2_boosts

\* lines 242-258: the boost policy and the returned string, with the values
\* the move was made from
F_Boost(board, my_head, my_dir, boosts, turn, W, H, candidates, scores, pick) ==
    LET chosen == PyOr(pick.best, PyOr(my_dir, "RIGHT"))
        depth == ProbeDepth(board, my_head, chosen, W, H, F_ProbeSteps).depth
        use_boost ==
            /\ HasBoost(boosts)
            /\ \/ depth >= F_OpenDepth /\ F_OpenTurnMin <= turn
                                       /\ turn <= F_OpenTurnMax
               \/ FLess(pick.best_score, FInt(F_CrampedScore))
                  /\ depth >= F_CrampedDepth
    IN [move |-> MoveOf(chosen, use_boost), scored |-> TRUE,
        my_dir |-> my_dir, candidates |-> candidates, scores |-> scores,
        chosen |-> chosen, best_score |-> pick.best_score,
        depth |-> depth]

\* lines 200-240: the best of the scored candidates
F_Decide(board, my_head, my_dir, boosts, turn, W, H, candidates, scores) ==
    F_Boost(board, my_head, my_dir, boosts, turn, W, H, candidates, scores,
            PickBest(candidates, scores, 1, PyNone, F_BestFloor))

\* lines 196-234: the candidates and their scores
F_Evaluate(board, my_head, opp_head, my_dir, opp_dir, boosts, turn, W, H) ==
    F_Decide(board, my_head, my_dir, boosts, turn, W, H,
             NotReversing(my_dir),
             ListOf([j \in 1..Len(NotReversing(my_dir)) |->
                       F_Score(board, my_head, opp_head, my_dir, opp_dir,
                               NotReversing(my_dir)[j], W, H)],
                    Len(NotReversing(my_dir))))

\* _choose_move(state, player_number)
F_ChooseMove(state, player_number) ==
    IF ~state.has_board
    THEN [move |-> <<"RIGHT">>, scored |-> FALSE]
    ELSE
    LET W == COLS
        H == ROWS
        my_trail == MyTrail(state, player_number)
        opp_trail == OppTrail(state, player_number)
    IN F_Evaluate(state.board,
                  IF my_trail # <<>> THEN Last(my_trail) ELSE <<0, 0>>,
                  IF opp_trail # <<>> THEN Last(opp_trail)
                  ELSE <<W - 1, H - 1>>,
                  PyOr(InferCurrentDir(my_trail, W, H), "RIGHT"),
                  PyOr(InferCurrentDir(opp_trail, W, H), PyNone),
                  MyBoosts(state, player_number),
                  state.turn_count, W, H)


\* ======================================================================
\* agents.py: AgentS.choose_action
\* ======================================================================

\* CFG (lines 29-96); STAGE_MODE is "turns", AVOID_HARD_REVERSE is True
S_EarlyTurnEnd == 28
S_MidTurnEnd == 120
S_StraightBonus == 10
S_FloodLimit == 320
S_VoronoiCap == 240
S_KamiNearDist == 3
S_KamiMinLine == 2
S_KamiExtraHeadon == -400
S_KamiLineSteps == 6
S_BoostLookaheadSteps == 5
S_BoostOpenDepthMin == 2
S_BoostOpenTurnMin == 24
S_BoostOpenTurnMax == 120
S_BoostCrampedScore == 80
S_BoostCrampedDepth == 1
S_NoBoostIfNearDist == 2

\* KAMI_EVASION_W = 12.0
S_KamiEvasionW == FLit(120)

\* CRASH_PENALTY = -1e9 and best_score's initial -1e18, held as -1e8 and
\* -2e8: the order of the two and of every score is the same
S_CrashPenalty == FInt(-100000000)
S_BestFloor == FInt(-200000000)

\* resolve_stage() in "turns" mode
S_Stage(turn) ==
    IF turn <= S_EarlyTurnEnd THEN "early"
    ELSE IF turn <= S_MidTurnEnd THEN "mid"
    ELSE "late"

\* stage_cfg: W_AREA and W_VORONOI in tenths, HEADON_PENALTY
S_StageCfg(stage) ==
    CASE stage = "early" -> [W_AREA |-> 16, W_VORONOI |-> 21,
                             HEADON_PENALTY |-> -900]
      [] stage = "mid"   -> [W_AREA |-> 20, W_VORONOI |-> 20,
                             HEADON_PENALTY |-> -550]
      [] stage = "late"  -> [W_AREA |-> 30, W_VORONOI |-> 8,
                             HEADON_PENALTY |-> -450]

\* int(danger * CFG["P1_HEADON_MULT"]) for the three penalties: the
\* products with the double 0.82 are exactly -738.0, -451.0 and -369.0
S_P1Danger(danger) ==
    CASE danger = -900 -> -738
      [] danger = -550 -> -451
      [] danger = -450 -> -369

\* tdist(a, b, W, H)
S_TDist(a, b, W, H) ==
    Min((a[1] - b[1]) % W, (b[1] - a[1]) % W)
    + Min((a[2] - b[2]) % H, (b[2] - a[2]) % H)

\* dir_towards(a, b, W, H)
S_DirTowards(a, b, W, H) ==
    LET dx_right == (b[1] - a[1]) % W
        dx_left == (a[1] - b[1]) % W
        dy_down == (b[2] - a[2]) % H
        dy_up == (a[2] - b[2]) % H
        dirs == (IF dx_right < dx_left THEN {"RIGHT"}
                 ELSE IF dx_left < dx_right THEN {"LEFT"} ELSE {})
                \cup
                (IF dy_down < dy_up THEN {"DOWN"}
                 ELSE IF dy_up < dy_down THEN {"UP"} ELSE {})
    IN IF dirs # {} THEN dirs ELSE {"UP", "DOWN", "LEFT", "RIGHT"}

\* straight_clear_len(board, pos, move_dir, W, H, max_steps)
S_StraightClearLen(board, pos, move_dir, W, H, max_steps) ==
    ProbeDepth(board, pos, move_dir, W, H, max_steps).depth

\* is_kamikaze()
S_IsKamikaze(board, stage, my_head, opp_head, opp_dir, W, H) ==
    IF stage # "early" \/ opp_dir = PyNone THEN FALSE
    ELSE IF S_TDist(opp_head, my_head, W, H) > S_KamiNearDist THEN FALSE
    ELSE IF opp_dir \notin S_DirTowards(opp_head, my_head, W, H) THEN FALSE
    ELSE S_StraightClearLen(board, opp_head, opp_dir, W, H, S_KamiLineSteps)
            >= S_KamiMinLine

\* lines 333-336: a suspected kamikaze adds the evasion term to the score
S_Evade(score, kamikaze, dist_after) ==
    IF kamikaze THEN FAdd(score, FMul(S_KamiEvasionW, dist_after))
    ELSE score

\* lines 305-336: the score of candidate d
S_Score(board, my_head, opp_head, my_dir, opp_dir, pnum, stage, kamikaze, d, W, H) ==
    LET step == SimulateStep(board, my_head, d, W, H)
        cfg == S_StageCfg(stage)
    IN
    IF step.crash THEN S_CrashPenalty
    ELSE LET area == S_FloodFillCount(board, step.pos, W, H, S_FloodLimit)
             vscore == S_VoronoiScore(board, step.pos, opp_head, W, H,
                                      S_VoronoiCap)
             headon == step.pos \in OppFuture(board, opp_head, opp_dir, W, H)
             danger0 == IF headon THEN cfg.HEADON_PENALTY ELSE 0
             danger1 == IF danger0 # 0 /\ pnum = 1 THEN S_P1Danger(danger0)
                        ELSE danger0
             danger == IF kamikaze /\ headon THEN danger1 + S_KamiExtraHeadon
                       ELSE danger1
             straight_bonus == IF d = my_dir THEN S_StraightBonus ELSE 0
         IN S_Evade(FAdd(FAdd(FAdd(FMul(FLit(cfg.W_AREA), area),
                                   FMul(FLit(cfg.W_VORONOI), vscore)),
                              FInt(danger)),
                         FInt(straight_bonus)),
                    kamikaze, S_TDist(step.pos, opp_head, W, H))

\* lines 343-371: the boost policy and the returned string, with the values
\* the move was made from
S_Boost(board, my_head, opp_head, my_dir, boosts, turn, kamikaze, W, H, candidates, scores, pick) ==
    LET chosen == PyOr(pick.best, PyOr(my_dir, "RIGHT"))
        ahead == ProbeDepth(board, my_head, chosen, W, H,
                            S_BoostLookaheadSteps)
        near_opp == S_TDist(my_head, opp_head, W, H) <= S_NoBoostIfNearDist
        use_boost ==
            /\ HasBoost(boosts)
            /\ ~near_opp
            /\ \/ ahead.depth >= S_BoostOpenDepthMin
                  /\ S_BoostOpenTurnMin <= turn /\ turn <= S_BoostOpenTurnMax
               \/ FLess(pick.best_score, FInt(S_BoostCrampedScore))
                  /\ ahead.depth >= S_BoostCrampedDepth
            /\ \/ ~kamikaze
               \/ S_TDist(ahead.probe, opp_head, W, H)
                    > S_TDist(my_head, opp_head, W, H)
    IN [move |-> MoveOf(chosen, use_boost), scored |-> TRUE,
        my_dir |-> my_dir, candidates |-> candidates, scores |-> scores,
        chosen |-> chosen, best_score |-> pick.best_score,
        depth |-> ahead.depth, probe |-> ahead.probe,
        kamikaze |-> kamikaze, near_opp |-> near_opp]

\* lines 303-341: the best of the scored candidates
S_Decide(board, my_head, opp_head, my_dir, boosts, turn, kamikaze, W, H, candidates, scores) ==
    S_Boost(board, my_head, opp_head, my_dir, boosts, turn, kamikaze, W, H,
            candidates, scores,
            PickBest(candidates, scores, 1, PyNone, S_BestFloor))

\* lines 288-336: the candidates and their scores
S_Rank(board, my_head, opp_head, my_dir, opp_dir, pnum, boosts, turn, stage, kamikaze, W, H) ==
    S_Decide(board, my_head, opp_head, my_dir, boosts, turn, kamikaze, W, H,
             NotReversing(my_dir),
             ListOf([j \in 1..Len(NotReversing(my_dir)) |->
                       S_Score(board, my_head, opp_head, my_dir, opp_dir,
                               pnum, stage, kamikaze, NotReversing(my_dir)[j],
                               W, H)],
                    Len(NotReversing(my_dir))))

\* lines 260-283: the stage and the kamikaze detection
S_Evaluate(board, my_head, opp_head, my_dir, opp_dir, pnum, boosts, turn, W, H) ==
    S_Rank(board, my_head, opp_head, my_dir, opp_dir, pnum, boosts, turn,
           S_Stage(turn),
           S_IsKamikaze(board, S_Stage(turn), my_head, opp_head, opp_dir,
                        W, H),
           W, H)

\* lines 221-238: the snapshot's fields, on a board of W x H cells
\* (`W, H = dims(board)`)
S_ChooseOn(state, W, H) ==
    IF ~state.has_board
    THEN [move |-> <<"RIGHT">>, scored |-> FALSE]
    ELSE
    LET pnum == state.player_number
        my_trail == MyTrail(state, pnum)
        opp_trail == OppTrail(state, pnum)
    IN S_Evaluate(state.board,
                  IF my_trail # <<>> THEN Last(my_trail) ELSE <<0, 0>>,
                  IF opp_trail # <<>> THEN Last(opp_trail)
                  ELSE <<W - 1, H - 1>>,
                  PyOr(S_InferCurrentDir(my_trail, W, H), "RIGHT"),
                  S_InferCurrentDir(opp_trail, W, H),
                  pnum, MyBoosts(state, pnum), state.turn_count, W, H)

\* AgentS.choose_action(game_state)
S_ChooseAction(state) == S_ChooseOn(state, COLS, ROWS)


\* ======================================================================
\* agentw.py: AgentW.choose_action
\* ======================================================================

\* DIR_NAMES = list(DIRS.keys())
DIR_NAMES == <<"UP", "DOWN", "LEFT", "RIGHT">>

\* the cells of a trail
TrailCells(trail) == {trail[j] : j \in 1..Len(trail)}

\* AgentW.simulate_step(pos, direction, steps)
W_SimulateStep(pos, direction, steps) ==
    Torus(<<pos[1] + DirValue(direction)[1] * steps,
            pos[2] + DirValue(direction)[2] * steps>>, COLS, ROWS)

\* AgentW.build_occupied_set(state): the board's cells that are 1 (a
\* board that is None counts as all 0) and the cells of both trails
W_BuildOccupiedSet(state) ==
    (IF state.has_board THEN state.board ELSE {})
    \cup TrailCells(state.agent1_trail) \cup TrailCells(state.agent2_trail)

\* head_from_trail(trail) of AgentW.head_positions
W_HeadFromTrail(trail) == IF trail = <<>> THEN NoCell ELSE Last(trail)

\* AgentW.last_positions(state): prev_pos
W_PrevPos(state) ==
    LET trail == MyTrail(state, state.player_number)
    IN IF Len(trail) >= 2 THEN Prev(trail) ELSE NoCell

\* `if boosts_left > 0` (line 158)
W_HasBoost(boosts_left) == boosts_left > 0

\* candidates whose boosted move is tested on its final cell only
W_CandidatesOf_FinalOnly(d, my_head, occ, prev_pos, boosts_left) ==
    LET nxt == W_SimulateStep(my_head, d, 1)
        final == W_SimulateStep(my_head, d, 2)
        dead_single == nxt \in occ \/ (prev_pos # NoCell /\ nxt = prev_pos)
        dead_boost == final \in occ \/ (prev_pos # NoCell /\ final = prev_pos)
        single == [move |-> <<d>>, cell |-> nxt, boost |-> FALSE,
                   dead |-> dead_single]
    IN IF W_HasBoost(boosts_left)
       THEN <<single, [move |-> <<d, "BOOST">>, cell |-> final,
                       boost |-> TRUE, dead |-> dead_boost]>>
       ELSE <<single>>

\* lines 153-162: the candidates of direction d
W_CandidatesOf(d, my_head, occ, prev_pos, boosts_left) ==
    LET nxt == W_SimulateStep(my_head, d, 1)
        final == W_SimulateStep(my_head, d, 2)
        dead_single == nxt \in occ \/ (prev_pos # NoCell /\ nxt = prev_pos)
        dead_boost == \/ nxt \in occ
                      \/ final \in occ
                      \/ prev_pos # NoCell
                         /\ (nxt = prev_pos \/ final = prev_pos)
        single == [move |-> <<d>>, cell |-> nxt, boost |-> FALSE,
                   dead |-> dead_single]
    IN IF W_HasBoost(boosts_left)
       THEN <<single, [move |-> <<d, "BOOST">>, cell |-> final,
                       boost |-> TRUE, dead |-> dead_boost]>>
       ELSE <<single>>

\* AgentW.propose_moves(state), with a head: the candidates in the order
\* they are appended
W_ProposeMoves(my_head, occ, prev_pos, boosts_left) ==
    W_CandidatesOf(DIR_NAMES[1], my_head, occ, prev_pos, boosts_left)
    \o W_CandidatesOf(DIR_NAMES[2], my_head, occ, prev_pos, boosts_left)
    \o W_CandidatesOf(DIR_NAMES[3], my_head, occ, prev_pos, boosts_left)
    \o W_CandidatesOf(DIR_NAMES[4], my_head, occ, prev_pos, boosts_left)

\* AgentW.head_on_survivor(my_len, opp_len)
W_HeadOnSurvivor(my_len, opp_len) ==
    IF my_len > opp_len THEN "ME"
    ELSE IF opp_len > my_len THEN "OPP"
    ELSE "BOTH"

\* lines 209-220: the scored tuple of a safe candidate
W_Scored(c, my_head, occ) ==
    LET occ2 == occ \cup {c.cell}
                \cup (IF c.boost
                      THEN {W_SimulateStep(my_head, c.move[1], 1)} ELSE {})
    IN [area |-> W_FloodFillArea(c.cell, occ2, ROWS * COLS),
        headon_risk |-> c.headon_risk, boost |-> c.boost, move |-> c.move]

\* the sort key (x[0], -int(x[2]))
W_KeyLess(a, b) ==
    \/ a.area < b.area
    \/ a.area = b.area /\ (IF a.boost THEN -1 ELSE 0)
                             < (IF b.boost THEN -1 ELSE 0)

\* scored.sort(key=..., reverse=True): descending and stable.  x is put
\* behind every element whose key is not smaller than its own
RECURSIVE W_Insert(_, _)
W_Insert(sorted, x) ==
    IF sorted = <<>> THEN <<x>>
    ELSE IF W_KeyLess(Head(sorted), x) THEN <<x>> \o sorted
    ELSE <<Head(sorted)>> \o W_Insert(Tail(sorted), x)

RECURSIVE W_Sort(_, _)
W_Sort(items, sorted) ==
    IF items = <<>> THEN sorted
    ELSE W_Sort(Tail(items), W_Insert(sorted, Head(items)))

\* next((s for s in scored if test(s)), None): the index of the first TRUE
\* in the sequence of the tests' values, 0 for None
FirstIndex(tests) ==
    IF \E j \in 1..Len(tests) : tests[j]
    THEN CHOOSE j \in 1..Len(tests) :
            tests[j] /\ \A h \in 1..(j - 1) : ~tests[h]
    ELSE 0

\* random.choice(DIR_NAMES): any of the four
W_RandomChoice == {<<DIR_NAMES[j]>> : j \in 1..Len(DIR_NAMES)}

\* boost_threshold = 1.30, in tenths
W_BoostThreshold == FLit(13)

\* lines 227-241: the choice among the sorted scored tuples
W_Pick(scored) ==
    LET nb == FirstIndex([j \in 1..Len(scored) |-> ~scored[j].boost])
        b == FirstIndex([j \in 1..Len(scored) |-> scored[j].boost])
        calm == FirstIndex([j \in 1..Len(scored) |-> ~scored[j].headon_risk])
    IN IF nb # 0 /\ b # 0
       THEN IF \/ ~FLess(FInt(scored[b].area),
                         FMul(W_BoostThreshold, scored[nb].area))
               \/ (scored[nb].headon_risk /\ ~scored[b].headon_risk)
            THEN scored[b].move
            ELSE scored[nb].move
       ELSE IF calm # 0 THEN scored[calm].move
       ELSE scored[1].move

\* AgentW.choose_action(game_state): the moves it may return (more than
\* one where the move is drawn by random.choice)
W_ChooseAction(state) ==
    LET me_num == state.player_number
        my_head == W_HeadFromTrail(MyTrail(state, me_num))
        opp_head == W_HeadFromTrail(OppTrail(state, me_num))
        occ == W_BuildOccupiedSet(state)
        boosts_left == MyBoosts(state, me_num)
        prev_pos == W_PrevPos(state)
    IN
    IF my_head = NoCell THEN W_RandomChoice
    ELSE
    LET candidates == W_ProposeMoves(my_head, occ, prev_pos, boosts_left)
        opp_one_step ==
            IF opp_head = NoCell THEN {}
            ELSE {W_SimulateStep(opp_head, DIR_NAMES[j], 1) :
                    j \in 1..Len(DIR_NAMES)}
        my_len == IF me_num = 1 THEN state.agent1_length
                  ELSE state.agent2_length
        opp_len == IF me_num = 1 THEN state.agent2_length
                   ELSE state.agent1_length
        risky == W_HeadOnSurvivor(my_len, opp_len) \in {"OPP", "BOTH"}
        non_dead == SelectSeq(candidates, LAMBDA c : ~c.dead)
        safe == [j \in 1..Len(non_dead) |->
                   [move |-> non_dead[j].move, cell |-> non_dead[j].cell,
                    boost |-> non_dead[j].boost,
                    headon_risk |-> non_dead[j].cell \in opp_one_step
                                    /\ risky]]
    IN
    IF safe = <<>>
    THEN IF non_dead # <<>> THEN {non_dead[1].move} ELSE W_RandomChoice
    ELSE LET scored == W_Sort([j \in 1..Len(safe) |->
                                 W_Scored(safe[j], my_head, occ)], <<>>)
         IN {W_Pick(scored)}


\* ======================================================================
\* the three evaluators called on a snapshot
\* ======================================================================
EvalOcc == 1         \* occupied cells of the board besides the trails
MaxBoosts == 1       \* boosts left

\* the cell one step back from head against direction d
StepBack(head, d) ==
    Torus(<<head[1] - DirValue(d)[1], head[2] - DirValue(d)[2]>>, COLS, ROWS)

\* trails of 0, 1 and 2 cells with the head among `heads`, the step into
\* the head among `dirs`
TrailsOf(heads, dirs) ==
    {<<>>} \cup {<<a>> : a \in heads}
    \cup {<<StepBack(a, d), a>> : a \in heads, d \in dirs}

\* turn counts in each of the three stages, inside and past the boost
\* windows
Turns == {S_BoostOpenTurnMin, S_MidTurnEnd, S_MidTurnEnd + 1}

\* the head of the evaluated mover, on the left edge: its step LEFT and the
\* trail that reaches it going RIGHT cross the wrap
EvalHead == <<0, 1>>

\* the cells next to that head
EvalWalls ==
    {c \in Cells(COLS, ROWS) : S_TDist(c, EvalHead, COLS, ROWS) = 1}

\* a snapshot as the engine posts it: the cells of both trails are 1 on
\* the board, and each length is the number of cells of the trail
Snapshot(me, my_trail, opp_trail, extra, boosts, turn) ==
    [has_board |-> TRUE,
     board |-> extra \cup TrailCells(my_trail) \cup TrailCells(opp_trail),
     agent1_trail |-> IF me = 1 THEN my_trail ELSE opp_trail,
     agent2_trail |-> IF me = 1 THEN opp_trail ELSE my_trail,
     agent1_boosts |-> boosts,
     agent2_boosts |-> boosts,
     agent1_length |-> IF me = 1 THEN Len(my_trail) ELSE Len(opp_trail),
     agent2_length |-> IF me = 1 THEN Len(opp_trail) ELSE Len(my_trail),
     turn_count |-> turn,
     player_number |-> me]

\* the state of an agent server nothing was posted to yet (board None)
NoBoardSnapshot(me, boosts) ==
    [has_board |-> FALSE, board |-> {},
     agent1_trail |-> <<>>, agent2_trail |-> <<>>,
     agent1_boosts |-> boosts, agent2_boosts |-> boosts,
     agent1_length |-> 0, agent2_length |-> 0,
     turn_count |-> 0, player_number |-> me]

EvalInputs ==
    {Snapshot(me, my_trail, opp_trail, extra, boosts, turn) :
        me \in Players,
        my_trail \in TrailsOf({EvalHead}, Directions),
        opp_trail \in TrailsOf(Cells(COLS, ROWS), {"RIGHT", "DOWN"}),
        extra \in {b \in SUBSET EvalWalls : Cardinality(b) <= EvalOcc},
        boosts \in 0..MaxBoosts,
        turn \in Turns}
    \cup {NoBoardSnapshot(me, boosts) :
            me \in Players, boosts \in 0..MaxBoosts}

\* the engine never posts two trails that share a cell
TrailsApart(state) ==
    TrailCells(state.agent1_trail) \cap TrailCells(state.agent2_trail) = {}

EvalInit ==
    /\ JudgeParked
    /\ AgentCParked
    /\ FloodParked
    /\ SampleParked
    /\ fin \in EvalInputs
    /\ TrailsApart(fin)
    /\ fout = Pending

\* the snapshot is evaluated by each of the three agents; w is the set of
\* the moves AgentW's random.choice may settle on
EvalCall ==
    /\ ~fout.done
    /\ LET flood == F_ChooseMove(fin, fin.player_number)
           s == S_ChooseAction(fin)
           w == W_ChooseAction(fin)
       IN fout' = [done |-> TRUE, flood |-> flood, s |-> s, w |-> w]
    /\ UNCHANGED fin
    /\ UNCHANGED notFn

EvalNext == EvalCall

EvalSpec == EvalInit /\ [][EvalNext]_<<vars, agentVars>>


\* the move carries the BOOST flag
IsBoost(move) == Len(move) = 2 /\ move[2] = "BOOST"

\* the set of the elements of a sequence
Range(seq) == {seq[j] : j \in 1..Len(seq)}

\* C14: whenever the mover's remaining boost count is 0, _choose_move,
\* AgentS.choose_action and AgentW.choose_action return a move without the
\* BOOST flag, whatever the candidates' scores are.
C14_NoBoostWithoutBoosts ==
    (/\ fin \in EvalInputs
     /\ fout.done
     /\ MyBoosts(fin, fin.player_number) = 0)
    => /\ ~IsBoost(fout.flood.move)
       /\ ~IsBoost(fout.s.move)
       /\ \A m \in fout.w : ~IsBoost(m)

\* no boosts left in a snapshot where a boost would be used if there were
\* one: runway ahead inside the turn window, the opponent not near, no
\* kamikaze suspected
C14_Witness ==
    /\ fin \in EvalInputs
    /\ fout.done
    /\ fin.has_board
    /\ MyBoosts(fin, fin.player_number) = 0
    /\ fin.turn_count = S_BoostOpenTurnMin
    /\ fout.flood.depth >= F_OpenDepth
    /\ fout.s.depth >= S_BoostOpenDepthMin
    /\ ~fout.s.near_opp
    /\ ~fout.s.kamikaze
    /\ fout.flood.move = <<fout.flood.chosen>>
    /\ fout.s.move = <<fout.s.chosen>>

\* the heading as far as the trail tells it (None for a trail of fewer than
\* two cells)
InferredHeading(state) ==
    InferCurrentDir(MyTrail(state, state.player_number), COLS, ROWS)

\* the four directions without the reverse of dir, all four for None
CandidatesFor(dir) ==
    IF dir = PyNone THEN Range(DIR_ORDER)
    ELSE Range(DIR_ORDER) \ {ReverseDir(dir)}

\* C20: the candidate set is the 4 directions minus the reverse of the
\* inferred heading, all 4 directions when the heading cannot be inferred
\* (a trail shorter than 2 cells); it is never empty and the emitted
\* direction is one of the candidates.
C20_CandidatesOfInferredHeading ==
    (fin \in EvalInputs /\ fout.done /\ fin.has_board)
    => \A r \in {fout.flood, fout.s} :
          /\ Range(r.candidates) = CandidatesFor(InferredHeading(fin))
          /\ r.candidates # <<>>
          /\ r.move[1] \in Range(r.candidates)

\* a trail of one cell whose only free neighbour is LEFT: LEFT is no
\* candidate, and the move is UP, into an occupied cell
C20_Witness ==
    /\ fin \in EvalInputs
    /\ fout.done
    /\ fin.has_board
    /\ MyTrail(fin, fin.player_number) = <<EvalHead>>
    /\ EvalWalls \ fin.board = {<<COLS - 1, 1>>}
    /\ fout.flood.candidates = <<"UP", "RIGHT", "DOWN">>
    /\ fout.s.candidates = <<"UP", "RIGHT", "DOWN">>
    /\ fout.flood.move[1] = "UP"
    /\ fout.s.move[1] = "UP"

\* what does hold: the heading that cannot be inferred counts as RIGHT, the
\* candidates are the other three directions in DIR_ORDER's order, and the
\* emitted direction is one of them
C20_CandidatesOfHeadingOrRight ==
    (fin \in EvalInputs /\ fout.done /\ fin.has_board)
    => \A r \in {fout.flood, fout.s} :
          /\ r.my_dir = PyOr(InferredHeading(fin), "RIGHT")
          /\ r.candidates = NotReversing(r.my_dir)
          /\ Len(r.candidates) = 3
          /\ r.move[1] \in Range(r.candidates)


\* the mover's head as the evaluators take it: the last cell of its trail,
\* (0, 0) for an empty trail
MyHeadOf(state) ==
    IF MyTrail(state, state.player_number) # <<>>
    THEN Last(MyTrail(state, state.player_number)) ELSE <<0, 0>>

\* the cell one step from the mover's head in direction d is occupied
Crashes(state, d) ==
    SimulateStep(state.board, MyHeadOf(state), d, COLS, ROWS).crash

\* C21: _choose_move and AgentS.choose_action select a direction into an
\* occupied cell only if every candidate leads into an occupied cell:
\* whenever a candidate leads to a free cell, so does the selected direction.
C21_CrashOnlyIfAllCrash ==
    (fin \in EvalInputs /\ fout.done /\ fin.has_board)
    => \A r \in {fout.flood, fout.s} :
          Crashes(fin, r.move[1])
          => \A j \in 1..Len(r.candidates) : Crashes(fin, r.candidates[j])

\* a candidate is blocked, the free candidates all carry the head-on
\* penalty (the best score is negative), and the selected direction is free
C21_Witness ==
    /\ fin \in EvalInputs
    /\ fout.done
    /\ fin.has_board
    /\ Len(MyTrail(fin, fin.player_number)) = 2
    /\ \A r \in {fout.flood, fout.s} :
          /\ \E j \in 1..Len(r.candidates) : Crashes(fin, r.candidates[j])
          /\ FLess(r.best_score, FInt(0))
          /\ ~Crashes(fin, r.move[1])


\* the index of the first candidate whose score no candidate's score exceeds
FirstBest(scores) ==
    CHOOSE k \in 1..Len(scores) :
        /\ \A j \in 1..Len(scores) : ~FLess(scores[k], scores[j])
        /\ \A j \in 1..(k - 1) : FLess(scores[j], scores[k])

\* candidates keeps the order of DIR_ORDER
InCanonicalOrder(candidates) ==
    candidates = SelectSeq(DIR_ORDER, LAMBDA d : d \in Range(candidates))

\* C22: _choose_move and AgentS.choose_action return a candidate with the
\* highest score, and among several with the highest score the one that
\* comes first in the order UP, RIGHT, DOWN, LEFT.
C22_FirstOfHighestScore ==
    (fin \in EvalInputs /\ fout.done /\ fin.has_board)
    => \A r \in {fout.flood, fout.s} :
          /\ InCanonicalOrder(r.candidates)
          /\ r.move[1] = r.candidates[FirstBest(r.scores)]
          /\ r.best_score = r.scores[FirstBest(r.scores)]

\* two free candidates share the highest score and the earlier one in the
\* canonical order is returned
C22_Witness ==
    /\ fin \in EvalInputs
    /\ fout.done
    /\ fin.has_board
    /\ \A r \in {fout.flood, fout.s} :
          \E j, k \in 1..Len(r.candidates) :
             /\ j < k
             /\ r.scores[j] = r.best_score
             /\ r.scores[k] = r.best_score
             /\ ~Crashes(fin, r.candidates[j])
             /\ ~Crashes(fin, r.candidates[k])
             /\ r.move[1] = r.candidates[j]


\* ======================================================================
\* AgentS.choose_action with an opponent closing in, on a board wide enough
\* for the five steps of the boost lookahead
\* ======================================================================
RushW == 7           \* the board's width
RushH == 3           \* the board's height

\* the mover's head, in the middle row
RushHead == <<3, 1>>

\* the cells next to that head
RushWalls ==
    {c \in Cells(RushW, RushH) : S_TDist(c, RushHead, RushW, RushH) = 1}

\* the trail of two cells that enters head going in direction d
TrailInto(head, d, W, H) ==
    <<Torus(<<head[1] - DirValue(d)[1], head[2] - DirValue(d)[2]>>, W, H),
      head>>

\* the opponent's heads: the cells to the right of the mover's column
RushOppHeads == {c \in Cells(RushW, RushH) : c[1] > RushHead[1]}

RushInputs ==
    {Snapshot(me, my_trail, opp_trail, extra, boosts, turn) :
        me \in Players,
        my_trail \in {TrailInto(RushHead, d, RushW, RushH) : d \in Directions},
        opp_trail \in {TrailInto(c, d, RushW, RushH) :
                          c \in RushOppHeads, d \in {"LEFT", "UP"}},
        extra \in {b \in SUBSET RushWalls : Cardinality(b) <= EvalOcc + 1},
        boosts \in 1..MaxBoosts,
        turn \in Turns}

RushInit ==
    /\ JudgeParked
    /\ AgentCParked
    /\ FloodParked
    /\ SampleParked
    /\ fin \in RushInputs
    /\ TrailsApart(fin)
    /\ fout = Pending

\* AgentS evaluates the snapshot
RushCall ==
    /\ ~fout.done
    /\ fout' = [done |-> TRUE, s |-> S_ChooseOn(fin, RushW, RushH)]
    /\ UNCHANGED fin
    /\ UNCHANGED notFn

RushNext == RushCall

RushSpec == RushInit /\ [][RushNext]_<<vars, agentVars>>

\* the opponent's head as AgentS takes it
OppHeadOf(state) == Last(OppTrail(state, state.player_number))

\* the mover's position after a boosted move: two cells along direction d
AfterBoost(state, d, W, H) ==
    Torus(<<MyHeadOf(state)[1] + 2 * DirValue(d)[1],
            MyHeadOf(state)[2] + 2 * DirValue(d)[2]>>, W, H)

\* C23: AgentS.choose_action emits no boosted move when the opponent's head
\* is within torus distance 2 of the mover's head, and when a rush
\* (kamikaze) is detected it emits a boosted move only if the position two
\* cells along the chosen direction is strictly farther from the opponent's
\* head than the mover's head is.
C23_BoostKeepsAway ==
    (fin \in RushInputs /\ fout.done /\ IsBoost(fout.s.move))
    => /\ S_TDist(MyHeadOf(fin), OppHeadOf(fin), RushW, RushH)
            > S_NoBoostIfNearDist
       /\ fout.s.kamikaze
          => S_TDist(AfterBoost(fin, fout.s.move[1], RushW, RushH),
                     OppHeadOf(fin), RushW, RushH)
             > S_TDist(MyHeadOf(fin), OppHeadOf(fin), RushW, RushH)

\* a rush is detected, the only free step leads towards the opponent, and
\* the move is boosted although it ends next to the opponent's head: the
\* cell five steps ahead is the one that is farther away
C23_Witness ==
    /\ fin \in RushInputs
    /\ fout.done
    /\ fout.s.kamikaze
    /\ fout.s.move = <<"RIGHT", "BOOST">>
    /\ fout.s.depth = S_BoostLookaheadSteps
    /\ S_TDist(MyHeadOf(fin), OppHeadOf(fin), RushW, RushH) = 3
    /\ S_TDist(AfterBoost(fin, "RIGHT", RushW, RushH), OppHeadOf(fin),
               RushW, RushH) = 1
    /\ S_TDist(fout.s.probe, OppHeadOf(fin), RushW, RushH) = 4

\* what does hold: no boost with the opponent within distance 2, and under
\* a detected rush a boost only if the cell where the lookahead stopped (up
\* to five steps ahead, or the occupied cell that stopped it) is strictly
\* farther from the opponent's head than the mover's head
C23_BoostProbeFarther ==
    (fin \in RushInputs /\ fout.done /\ IsBoost(fout.s.move))
    => /\ ~fout.s.near_opp
       /\ S_TDist(MyHeadOf(fin), OppHeadOf(fin), RushW, RushH)
            > S_NoBoostIfNearDist
       /\ fout.s.kamikaze
          => S_TDist(fout.s.probe, OppHeadOf(fin), RushW, RushH)
             > S_TDist(MyHeadOf(fin), OppHeadOf(fin), RushW, RushH)


\* ======================================================================
\* agentc.py: AgentC
\* ======================================================================
\* AgentC.ACTIONS
C_ACTIONS ==
    {<<d>> : d \in Directions} \cup {<<d, "BOOST">> : d \in Directions}

\* the keys of the `directions` dicts, in insertion order
C_DIRS == <<"UP", "DOWN", "LEFT", "RIGHT">>

C_BoostThreshold == 1        \* self.boost_threshold
C_Inf == 1000000             \* float('inf'): above every score
C_MaxDepth == 15             \* max_depth of _calculate_available_space
C_EarlyTurnEnd == 50         \* `turn_count < 50`
C_MidTurnEnd == 120          \* `50 <= turn_count < 120`

\* `if abs(dx) > 1: dx = -1 if dx > 0 else 1`
C_Wrap(dx) == IF Abs(dx) > 1 THEN (IF dx > 0 THEN -1 ELSE 1) ELSE dx

\* lines 57-71 and 194-206: the step between a trail's last two cells
C_TrailDirection(trail) ==
    <<C_Wrap(Last(trail)[1] - Prev(trail)[1]),
      C_Wrap(Last(trail)[2] - Prev(trail)[2])>>

\* AgentC._predict_opponent_direction(opponent_trail); None is the empty
\* tuple here as for a cell
C_PredictOpponentDirection(opponent_trail) ==
    IF Len(opponent_trail) < 2 THEN NoCell
    ELSE C_TrailDirection(opponent_trail)

\* AgentC._get_predicted_position(pos, direction, width, height)
C_GetPredictedPosition(pos, direction, width, height) ==
    IF direction = NoCell THEN pos
    ELSE <<(pos[1] + direction[1]) % width, (pos[2] + direction[2]) % height>>

\* AgentC._is_opposite_direction(new_dir, current_dir)
C_IsOppositeDirection(new_dir, current_dir) ==
    new_dir = <<-current_dir[1], -current_dir[2]>>

\* AgentC._torus_distance(pos1, pos2, width, height)
C_TorusDistance(pos1, pos2, width, height) ==
    Min(Abs(pos2[1] - pos1[1]), width - Abs(pos2[1] - pos1[1]))
    + Min(Abs(pos2[2] - pos1[2]), height - Abs(pos2[2] - pos1[2]))

\* AgentC._is_position_safe(pos, board, my_trail, opp_trail, avoid_head_on).
\* The cells of both trails are occupied on the board of every payload, so
\* `pos in my_trail` answers as the board does whether the trail's cells
\* compare equal to the tuple pos or not.
C_IsPositionSafe(pos, board, my_trail, opp_trail, avoid_head_on) ==
    IF pos \in TrailCells(my_trail) THEN FALSE
    ELSE IF Len(opp_trail) > 0 /\ pos = Last(opp_trail) THEN ~avoid_head_on
    ELSE IF Len(opp_trail) > 0 /\ pos \in TrailCells(opp_trail) THEN FALSE
    ELSE pos \notin board

\* the cell one step from pos in direction d
C_NewPos(pos, d, width, height) ==
    <<(pos[1] + DirValue(d)[1]) % width, (pos[2] + DirValue(d)[2]) % height>>

\* AgentC._is_moving_toward_collision
C_IsMovingTowardCollision(my_new_pos, opp_current_pos, opp_predicted_pos, width, height) ==
    \/ \E d \in Directions :
          my_new_pos = C_NewPos(opp_current_pos, d, width, height)
    \/ my_new_pos = opp_predicted_pos
    \/ C_TorusDistance(my_new_pos, opp_current_pos, width, height) <= 1
    \/ C_TorusDistance(my_new_pos, opp_predicted_pos, width, height) <= 1

\* AgentC._is_on_collision_course(my_pos, target_pos, my_dir, width, height)
C_IsOnCollisionCourse(my_pos, target_pos, my_dir, width, height) ==
    C_TorusDistance(<<(my_pos[1] + my_dir[1]) % width,
                      (my_pos[2] + my_dir[2]) % height>>,
                    target_pos, width, height)
    < C_TorusDistance(my_pos, target_pos, width, height)

\* lines 502-512: the neighbours of pos, from the k-th on, are marked
\* visited and the reachable ones are queued
RECURSIVE C_Visit(_, _, _, _, _, _, _, _)
C_Visit(k, pos, depth, queue, visited, blocked, width, height) ==
    IF k > Len(C_DIRS) THEN [queue |-> queue, visited |-> visited]
    ELSE LET new_pos == C_NewPos(pos, C_DIRS[k], width, height)
         IN IF new_pos \in visited
            THEN C_Visit(k + 1, pos, depth, queue, visited, blocked,
                         width, height)
            ELSE C_Visit(k + 1, pos, depth,
                         IF new_pos \notin blocked
                         THEN Append(queue, <<new_pos, depth + 1>>)
                         ELSE queue,
                         visited \cup {new_pos}, blocked, width, height)

\* lines 494-514: the loop over the queue
RECURSIVE C_SpaceLoop(_, _, _, _, _, _, _)
C_SpaceLoop(queue, visited, space_count, blocked, width, height, max_depth) ==
    IF queue = <<>> \/ space_count >= max_depth THEN space_count
    ELSE IF Head(queue)[2] >= max_depth
    THEN C_SpaceLoop(Tail(queue), visited, space_count, blocked,
                     width, height, max_depth)
    ELSE LET seen == C_Visit(1, Head(queue)[1], Head(queue)[2], Tail(queue),
                             visited, blocked, width, height)
         IN C_SpaceLoop(seen.queue, seen.visited, space_count + 1, blocked,
                        width, height, max_depth)

\* AgentC._calculate_available_space
C_CalculateAvailableSpace(start_pos, board, my_trail, opp_trail, height, width) ==
    C_SpaceLoop(<<<<start_pos, 0>>>>, {start_pos}, 0,
                board \cup TrailCells(my_trail) \cup TrailCells(opp_trail),
                width, height, C_MaxDepth)

\* `if score < best_score`: the first move of the least score, the moves
\* that were skipped left out; None if every move was skipped
RECURSIVE C_Least(_, _, _, _)
C_Least(entries, k, best_move, best_score) ==
    IF k > Len(entries) THEN best_move
    ELSE IF entries[k].valid /\ entries[k].score < best_score
    THEN C_Least(entries, k + 1, C_DIRS[k], entries[k].score)
    ELSE C_Least(entries, k + 1, best_move, best_score)

\* `if available_space > best_space`, `if distance > best_distance`
RECURSIVE C_Most(_, _, _, _)
C_Most(entries, k, best_move, best_score) ==
    IF k > Len(entries) THEN best_move
    ELSE IF entries[k].valid /\ entries[k].score > best_score
    THEN C_Most(entries, k + 1, C_DIRS[k], entries[k].score)
    ELSE C_Most(entries, k + 1, best_move, best_score)

\* lines 270-298: the score of a move of _find_interception_move
C_InterceptScore(new_pos, d, opp_pos, predicted_opp_pos, avoid_head_on, width, height) ==
    LET dist_to_predicted ==
            C_TorusDistance(new_pos, predicted_opp_pos, width, height)
        dist_to_current == C_TorusDistance(new_pos, opp_pos, width, height)
    IN IF avoid_head_on
       THEN dist_to_predicted
            + (IF dist_to_current < 2 THEN 30
               ELSE IF dist_to_current = 2 THEN -10
               ELSE IF dist_to_current <= 4 THEN -5
               ELSE IF dist_to_current > 6 THEN 5 ELSE 0)
       ELSE dist_to_predicted
            + (IF dist_to_current <= 2 THEN -10 ELSE 0)
            + (IF C_IsOnCollisionCourse(new_pos, predicted_opp_pos,
                                        DirValue(d), width, height)
               THEN -5 ELSE 0)

\* lines 235-266: a move of _find_interception_move is not skipped
C_InterceptValid(new_pos, d, cur_dir, opp_pos, predicted_opp_pos, board, my_trail, opp_trail, avoid_head_on, width, height) ==
    /\ ~C_IsOppositeDirection(DirValue(d), cur_dir)
    /\ avoid_head_on =>
          /\ new_pos # opp_pos
          /\ new_pos # predicted_opp_pos
          /\ ~C_IsMovingTowardCollision(new_pos, opp_pos, predicted_opp_pos,
                                        width, height)
    /\ C_IsPositionSafe(new_pos, board, my_trail, opp_trail, avoid_head_on)

\* AgentC._find_interception_move
C_FindInterceptionMove(cur_dir, my_pos, opp_pos, predicted_opp_pos, board, my_trail, opp_trail, height, width, avoid_head_on) ==
    C_Least(ListOf([k \in 1..Len(C_DIRS) |->
                [valid |-> C_InterceptValid(
                               C_NewPos(my_pos, C_DIRS[k], width, height),
                               C_DIRS[k], cur_dir, opp_pos, predicted_opp_pos,
                               board, my_trail, opp_trail, avoid_head_on,
                               width, height),
                 score |-> C_InterceptScore(
                               C_NewPos(my_pos, C_DIRS[k], width, height),
                               C_DIRS[k], opp_pos, predicted_opp_pos,
                               avoid_head_on, width, height)]], Len(C_DIRS)),
            1, PyNone, C_Inf)

\* lines 390-402: the score of a move of _find_aggressive_chase
C_ChaseScore(distance, avoid_head_on) ==
    IF avoid_head_on
    THEN IF distance < 2 THEN distance + 10
         ELSE IF distance <= 4 THEN distance - 5
         ELSE distance
    ELSE distance

\* AgentC._find_aggressive_chase
C_FindAggressiveChase(cur_dir, my_pos, opp_pos, board, my_trail, opp_trail, height, width, avoid_head_on) ==
    C_Least(ListOf([k \in 1..Len(C_DIRS) |->
                [valid |->
                    /\ ~C_IsOppositeDirection(DirValue(C_DIRS[k]), cur_dir)
                    /\ ~(/\ avoid_head_on
                         /\ C_IsMovingTowardCollision(
                                C_NewPos(my_pos, C_DIRS[k], width, height),
                                opp_pos,
                                C_GetPredictedPosition(opp_pos,
                                    C_PredictOpponentDirection(opp_trail),
                                    width, height),
                                width, height))
                    /\ C_IsPositionSafe(
                           C_NewPos(my_pos, C_DIRS[k], width, height),
                           board, my_trail, opp_trail, avoid_head_on),
                 score |-> C_ChaseScore(
                               C_TorusDistance(
                                   C_NewPos(my_pos, C_DIRS[k], width, height),
                                   opp_pos, width, height),
                               avoid_head_on)]], Len(C_DIRS)),
            1, PyNone, C_Inf)

\* AgentC._find_space_control_move
C_FindSpaceControlMove(cur_dir, my_pos, opp_pos, board, my_trail, opp_trail, height, width, avoid_head_on) ==
    C_Most(ListOf([k \in 1..Len(C_DIRS) |->
                [valid |->
                    /\ ~C_IsOppositeDirection(DirValue(C_DIRS[k]), cur_dir)
                    /\ C_IsPositionSafe(
                           C_NewPos(my_pos, C_DIRS[k], width, height),
                           board, my_trail, opp_trail, avoid_head_on),
                 score |-> C_CalculateAvailableSpace(
                               C_NewPos(my_pos, C_DIRS[k], width, height),
                               board, my_trail, opp_trail, height, width)]],
                Len(C_DIRS)),
           1, PyNone, -1)

\* AgentC._find_evasive_move
C_FindEvasiveMove(cur_dir, my_pos, opp_pos, board, my_trail, opp_trail, height, width, avoid_head_on) ==
    C_Most(ListOf([k \in 1..Len(C_DIRS) |->
                [valid |->
                    /\ ~C_IsOppositeDirection(DirValue(C_DIRS[k]), cur_dir)
                    /\ C_IsPositionSafe(
                           C_NewPos(my_pos, C_DIRS[k], width, height),
                           board, my_trail, opp_trail, avoid_head_on),
                 score |-> C_TorusDistance(
                               C_NewPos(my_pos, C_DIRS[k], width, height),
                               opp_pos, width, height)]], Len(C_DIRS)),
           1, PyNone, -1)

\* AgentC._should_boost_for_collision, with the threshold it compares the
\* remaining boosts to
C_ShouldBoost(threshold, my_pos, opp_pos, predicted_opp_pos, my_boosts, height, width, turn_count, should_be_aggressive) ==
    IF my_boosts <= threshold THEN FALSE
    ELSE
    LET dist_to_opp == C_TorusDistance(my_pos, opp_pos, width, height)
        dist_to_predicted ==
            C_TorusDistance(my_pos, predicted_opp_pos, width, height)
    IN IF should_be_aggressive
       THEN \/ 2 <= dist_to_opp /\ dist_to_opp <= 4
            \/ dist_to_predicted <= 3 /\ dist_to_opp <= 6
            \/ turn_count < C_EarlyTurnEnd /\ dist_to_opp <= 8 /\ my_boosts > 2
            \/ /\ C_EarlyTurnEnd <= turn_count
               /\ turn_count < C_MidTurnEnd
               /\ dist_to_opp <= 5
               /\ my_boosts > 1
            \/ turn_count >= C_MidTurnEnd /\ my_boosts = 2 /\ dist_to_opp <= 3
       ELSE dist_to_opp <= 3 /\ my_boosts > 2

C_ShouldBoostForCollision(my_pos, opp_pos, predicted_opp_pos, my_boosts, height, width, turn_count, should_be_aggressive) ==
    C_ShouldBoost(C_BoostThreshold, my_pos, opp_pos, predicted_opp_pos,
                  my_boosts, height, width, turn_count, should_be_aggressive)

\* lines 76 and 187: `self.last_action if self.last_action in self.ACTIONS
\* else "RIGHT"`; the instance's fields stay as they are
C_Fallback(last, cur_dir, path) ==
    [action |-> IF last \in C_ACTIONS THEN last ELSE <<"RIGHT">>,
     last_action |-> last, current_direction |-> cur_dir, path |-> path]

\* lines 145-181: the boost decision, the action and the fields written
C_Finish(best_move, use_boost, my_boosts) ==
    LET action == IF use_boost /\ my_boosts > C_BoostThreshold
                  THEN <<best_move, "BOOST">> ELSE <<best_move>>
    IN [action |-> action, last_action |-> action,
        current_direction |-> DirValue(action[1]), path |-> "move"]

\* lines 130-181.  self._find_safe_move is not defined in the class (its
\* body follows the return of _calculate_available_space), so the call of
\* line 132 raises AttributeError and choose_action ends in the handler of
\* line 183; lines 137-143 are never reached with best_move None.
C_Decide(best_move, last, cur_dir, my_head, opp_head, predicted_opp_pos, my_boosts, height, width, turn_count, aggressive) ==
    IF best_move = PyNone THEN C_Fallback(last, cur_dir, "exception")
    ELSE C_Finish(best_move,
                  C_ShouldBoostForCollision(my_head, opp_head,
                      predicted_opp_pos, my_boosts, height, width,
                      turn_count, aggressive),
                  my_boosts)

\* lines 78-128: the strategy's move, None if it found none
C_Strategy(last, cur_dir, board, my_trail, opp_trail, predicted_opp_pos, my_boosts, height, width, turn_count, aggressive, avoid_head_on) ==
    C_Decide(
        IF aggressive
        THEN PyOr(C_FindInterceptionMove(cur_dir, Last(my_trail),
                      Last(opp_trail), predicted_opp_pos, board, my_trail,
                      opp_trail, height, width, avoid_head_on),
                  C_FindAggressiveChase(cur_dir, Last(my_trail),
                      Last(opp_trail), board, my_trail, opp_trail, height,
                      width, avoid_head_on))
        ELSE PyOr(C_FindSpaceControlMove(cur_dir, Last(my_trail),
                      Last(opp_trail), board, my_trail, opp_trail, height,
                      width, avoid_head_on),
                  C_FindEvasiveMove(cur_dir, Last(my_trail),
                      Last(opp_trail), board, my_trail, opp_trail, height,
                      width, avoid_head_on)),
        last, cur_dir, Last(my_trail), Last(opp_trail), predicted_opp_pos,
        my_boosts, height, width, turn_count, aggressive)

\* lines 56-76, with the fields read in lines 24-50.  A snapshot without a
\* board gives None for game_state.get("board"): with a trail of two cells
\* `height = len(board)` (line 65) raises before current_direction is
\* written.
C_Call(last, cur_dir, state, my_trail, opp_trail, my_boosts, aggressive, avoid_head_on) ==
    IF Len(my_trail) >= 2 /\ ~state.has_board
    THEN C_Fallback(last, cur_dir, "exception")
    ELSE IF my_trail = <<>> \/ opp_trail = <<>> \/ ~state.has_board
    THEN C_Fallback(last,
                    IF Len(my_trail) >= 2 THEN C_TrailDirection(my_trail)
                    ELSE cur_dir,
                    "missing")
    ELSE C_Strategy(last,
                    IF Len(my_trail) >= 2 THEN C_TrailDirection(my_trail)
                    ELSE cur_dir,
                    state.board, my_trail, opp_trail,
                    C_GetPredictedPosition(Last(opp_trail),
                        C_PredictOpponentDirection(opp_trail), COLS, ROWS),
                    my_boosts, ROWS, COLS, state.turn_count, aggressive,
                    avoid_head_on)

\* AgentC.choose_action(game_state) on the instance whose fields are
\* last_action = last and current_direction = cur_dir: the action returned
\* and the fields afterwards
C_ChooseAction(last, cur_dir, state) ==
    C_Call(last, cur_dir, state,
           MyTrail(state, state.player_number),
           OppTrail(state, state.player_number),
           MyBoosts(state, state.player_number),
           IF state.player_number = 1
           THEN state.agent1_length > state.agent2_length
           ELSE state.agent2_length > state.agent1_length,
           state.player_number = 2)

\* ------------------------------------------ calls on one AgentC instance
CBoosts == 3         \* the largest remaining boost count of a snapshot

\* the turns on both sides of the thresholds of the boost policy
CTurns == {0, C_EarlyTurnEnd, C_MidTurnEnd}

\* the mover came down into EvalHead; the opponent's head is two or three
\* cells away, its trail one cell (the mover's is longer) or two
CMyTrail == TrailInto(EvalHead, "DOWN", COLS, ROWS)

COppTrails ==
    UNION {{<<c>>, TrailInto(c, "LEFT", COLS, ROWS)} : c \in {<<2, 1>>, <<2, 2>>}}

\* no cell or every cell next to the mover's head is occupied
CInputs ==
    {Snapshot(me, CMyTrail, opp_trail, extra, boosts, turn) :
        me \in Players, opp_trail \in COppTrails, extra \in {{}, EvalWalls},
        boosts \in 0..CBoosts, turn \in CTurns}
    \cup {NoBoardSnapshot(me, boosts) : me \in Players, boosts \in 0..CBoosts}

AgentCInit ==
    /\ JudgeParked
    /\ FloodParked
    /\ SampleParked
    /\ FnParked
    /\ AgentCParked

\* what one call returns and writes
CReturn(state, r) ==
    /\ fin' = state
    /\ fout' = [done |-> TRUE, action |-> r.action, path |-> r.path]
    /\ last_action' = r.last_action
    /\ current_direction' = r.current_direction
    /\ UNCHANGED notAgentC

\* one call of choose_action with the snapshot the server was pushed
CCall ==
    \E state \in CInputs :
        CReturn(state, C_ChooseAction(last_action, current_direction, state))

AgentCNext == CCall

AgentCSpec == AgentCInit /\ [][AgentCNext]_<<vars, agentVars>>

\* C24: over any sequence of choose_action calls on one AgentC instance, a
\* call whose snapshot gives the mover a remaining boost count <= 1 never
\* returns an action with the BOOST suffix, the calls that end in the
\* missing-data or exception fallback included.
C24_NoBoostAtThreshold ==
    (fout.done /\ MyBoosts(fin, fin.player_number) <= C_BoostThreshold)
    => ~IsBoost(fout.action)

\* a call with at most one boost left ends in a fallback and returns the
\* boosted action an earlier call stored in last_action
C24_Witness ==
    /\ fout.done
    /\ MyBoosts(fin, fin.player_number) <= C_BoostThreshold
    /\ fout.path \in {"missing", "exception"}
    /\ IsBoost(fout.action)
    /\ fout.action = last_action

\* what does hold: a call with at most one boost left that runs to line 181
\* returns no boosted action
C24_NoBoostUnlessFallback ==
    (/\ fout.done
     /\ MyBoosts(fin, fin.player_number) <= C_BoostThreshold
     /\ fout.path = "move")
    => ~IsBoost(fout.action)


\* ======================================================================
\* judge_engine.py: main(), the allowances and the order of a turn
\* ======================================================================
\* the judge keeps running: every call it makes returns or times out
LiveSpec == Spec /\ WF_vars(Next)

\* agent i's move of the running turn is there: returned, corrected or drawn
Settled(i) ==
    how[i] \in {"move", "reverse", "random"} /\ p_direction[i] \in Directions

\* C25: each agent's random-move allowance stays within 0..InitRandom (5 in
\* the code), is InitRandom when the turn loop is entered, never increases,
\* and falls, by exactly 1, only in a step in which both move attempts of
\* that agent had failed; a move obtained on attempt 1 or 2, a corrected
\* reversal and whatever the other agent does leave it unchanged.
C25_State ==
    /\ \A i \in Players : p_random[i] \in 0..InitRandom
    /\ (turns = 0 /\ pc = "req" /\ cur = 1) => p_random = Both(InitRandom)

C25_Step ==
    \A i \in Players :
        /\ p_random'[i] <= p_random[i]
        /\ p_random'[i] # p_random[i] =>
              /\ p_random'[i] = p_random[i] - 1
              /\ cur = i
              /\ BothAttemptsFailed
        /\ (pc \in {"req", "handle"} \/ cur # i) => p_random'[i] = p_random[i]

C25_AllowanceOnlyFalls == []C25_State /\ [][C25_Step]_vars

C25_Witness ==
    /\ pc = "resolve"
    /\ turns = 1
    /\ how = <<"random", "reverse">>
    /\ p_random = <<InitRandom - 2, InitRandom - 1>>

\* C27: within a turn agent 1's move is fetched and validated before agent
\* 2 is contacted: a move request goes to agent 2 only once agent 1's move
\* is settled; when agent 1 forfeits (invalid token, or both attempts failed
\* with allowance 0) the result is AGENT2_WIN and no request goes to agent 2
\* any more; and when both allowances are 0 and agent 1 fails both attempts
\* the result is AGENT2_WIN, not DRAW and not AGENT1_WIN.
C27_State ==
    /\ (pc \in {"req", "handle", "fallback"} /\ cur = 2) => Settled(1)
    /\ (pc \in {"end", "done"} /\ endReason \in {"token", "exhausted"} /\ cur = 1)
          => /\ result = "AGENT2_WIN"
             /\ turns = 0 => ~requested[2]

C27_Step ==
    /\ (requested' # requested \/ (reqs' # reqs /\ reqs' # <<>>)) =>
          /\ pc = "req"
          /\ requested'[cur]
          /\ requested'[Opponent(cur)] = requested[Opponent(cur)]
    /\ cur' # cur =>
          \/ /\ cur = 1 /\ cur' = 2
             /\ pc \in {"handle", "fallback"} /\ pc' = "req"
             /\ how'[1] # "none"
          \/ /\ cur = 2 /\ cur' = 1
             /\ pc = "resolve" /\ turns' = turns + 1
    /\ (cur = 1 /\ pc \in {"handle", "fallback"} /\ pc' = "end") =>
          /\ result' = "AGENT2_WIN"
          /\ cur' = 1
    /\ pc \in {"end", "done"} =>
          /\ cur' = cur
          /\ requested' = requested
          /\ reqs' = reqs
    /\ (BothAttemptsFailed /\ cur = 1 /\ p_random = Both(0)) =>
          /\ pc' = "end"
          /\ result' = "AGENT2_WIN"

C27_AgentOneFirst == []C27_State /\ [][C27_Step]_vars

C27_Witness ==
    /\ pc = "done"
    /\ endReason = "exhausted"
    /\ cur = 1
    /\ p_random = Both(0)
    /\ requested = Both(TRUE)
    /\ result = "AGENT2_WIN"

\* C28: when game.step returns a terminal result on the step that takes the
\* turn counter to the ceiling, the match ends with that result; DRAW by
\* ceiling is declared only when that step returned no result.
C28_State ==
    endReason = "ceiling" =>
        /\ stepped = "None"
        /\ result = "DRAW"
        /\ turns = MaxTurns

C28_Step ==
    (pc = "resolve" /\ turns' = MaxTurns) =>
        /\ pc' = "end"
        /\ stepped' # "None" => (result' = stepped' /\ endReason' = "engine")
        /\ stepped' = "None" => (result' = "DRAW" /\ endReason' = "ceiling")

C28_EngineResultFirst == []C28_State /\ [][C28_Step]_vars

C28_Witness ==
    /\ pc = "done"
    /\ turns = MaxTurns
    /\ stepped = "AGENT1_WIN"
    /\ result = "AGENT1_WIN"
    /\ endReason = "engine"

\* C29: in every match that reaches the turn loop end_game is invoked
\* exactly once; once it is invoked the judge issues no move request, no
\* state push and no game.step; and a turn that is resolved goes: the move
\* requests (both moves settled), one game.step and one state push to each
\* agent, then, if the match ends, the /end posts of end_game.
C29_State ==
    /\ endCalls <= 1
    /\ endCalls = 1 => pc = "done"
    /\ (pc = "done" /\ requested[1]) => endCalls = 1
    /\ \A i \in Players : endPosts[i] <= endCalls
    /\ pc = "resolve" => (Settled(1) /\ Settled(2))

C29_Step ==
    /\ pc \in {"end", "done"} =>
          UNCHANGED <<requested, reqs, pushes, turns, stepped>>
    /\ pc = "resolve" =>
          /\ turns' = turns + 1
          /\ pushes' = [i \in Players |-> pushes[i] + 1]
          /\ UNCHANGED <<requested, endCalls, endPosts>>
          /\ pc' \in {"req", "end"}
          /\ stepped' # "None" => pc' = "end"
    /\ turns' # turns => pc = "resolve"
    /\ pushes' # pushes => pc \in {"push0", "resolve"}
    /\ requested' # requested => pc = "req"
    /\ endCalls' # endCalls =>
          /\ pc = "end"
          /\ pc' = "done"
          /\ endCalls' = endCalls + 1
    /\ endPosts' # endPosts => pc = "end"

C29_EndGameOnce ==
    /\ []C29_State
    /\ [][C29_Step]_vars
    /\ (pc = "req") ~> (pc = "done" /\ endCalls = 1)

C29_Witness ==
    /\ pc = "done"
    /\ endCalls = 1
    /\ endReason = "engine"
    /\ turns = 2
    /\ pushes = <<3, 3>>
    /\ endPosts = <<1, 1>>


\* ======================================================================
\* the cells a boosted move of the evaluators and of AgentW passes
\* ======================================================================
\* C26: whenever _choose_move or AgentS.choose_action emits DIRECTION:BOOST,
\* both cells the boosted move traverses, one step and two steps from the
\* mover's head along DIRECTION (wrapped on the torus), are free in the
\* snapshot the decision was computed from.
C26_BoostCellsFree ==
    (fin \in EvalInputs /\ fout.done /\ fin.has_board) =>
        \A r \in {fout.flood, fout.s} :
            IsBoost(r.move) =>
                /\ ~Crashes(fin, r.move[1])
                /\ AfterBoost(fin, r.move[1], COLS, ROWS) \notin fin.board

\* both evaluators boost in the cramped case with one free cell ahead: the
\* lookahead stopped after one step, on the occupied second cell
C26_Witness ==
    /\ fin \in EvalInputs
    /\ fout.done
    /\ fin.has_board
    /\ Len(MyTrail(fin, fin.player_number)) = 2
    /\ \A r \in {fout.flood, fout.s} :
          /\ IsBoost(r.move)
          /\ r.depth = 1
          /\ ~Crashes(fin, r.move[1])
          /\ AfterBoost(fin, r.move[1], COLS, ROWS) \in fin.board

\* what does hold: the first cell of an emitted boosted move is free, and
\* the second one is free unless the lookahead stopped after one step
C26_BoostFirstCellFree ==
    (fin \in EvalInputs /\ fout.done /\ fin.has_board) =>
        \A r \in {fout.flood, fout.s} :
            IsBoost(r.move) =>
                /\ r.depth >= 1
                /\ ~Crashes(fin, r.move[1])
                /\ r.depth >= 2 =>
                      AfterBoost(fin, r.move[1], COLS, ROWS) \notin fin.board


\* the moves AgentW chooses among: the four directions, boosted too when
\* boosts remain
CandidateMoves(state) ==
    {<<d>> : d \in Directions}
    \cup (IF MyBoosts(state, state.player_number) > 0
          THEN {<<d, "BOOST">> : d \in Directions} ELSE {})

\* the cells move m traverses from the mover's head
Traversed(state, m) ==
    {Torus(<<MyHeadOf(state)[1] + DirValue(m[1])[1],
             MyHeadOf(state)[2] + DirValue(m[1])[2]>>, COLS, ROWS)}
    \cup (IF IsBoost(m) THEN {AfterBoost(state, m[1], COLS, ROWS)} ELSE {})

\* move m traverses an occupied cell (of the board or of a trail) or steps
\* back onto the previous cell of the mover's trail
UnsafeMove(state, m) ==
    \/ Traversed(state, m)
         \cap (state.board \cup TrailCells(state.agent1_trail)
                           \cup TrailCells(state.agent2_trail)) # {}
    \/ /\ Len(MyTrail(state, state.player_number)) >= 2
       /\ Prev(MyTrail(state, state.player_number)) \in Traversed(state, m)

\* C30: given a snapshot with a known own head, AgentW.choose_action
\* returns a move that traverses an occupied cell or steps back onto the
\* previous trail cell only if every candidate move does so, and a boosted
\* move it returns has both its intermediate and its final cell free.
C30_UnsafeOnlyIfAllUnsafe ==
    (/\ fin \in EvalInputs
     /\ fout.done
     /\ MyTrail(fin, fin.player_number) # <<>>)
    => \A m \in fout.w :
          /\ m \in CandidateMoves(fin)
          /\ UnsafeMove(fin, m) =>
                \A c \in CandidateMoves(fin) : UnsafeMove(fin, c)
          /\ IsBoost(m) => ~UnsafeMove(fin, m)

\* some direction's plain move is free while its boosted move ends on an
\* occupied cell, and what AgentW returns is a boosted move over free cells
C30_Witness ==
    /\ fin \in EvalInputs
    /\ fout.done
    /\ Len(MyTrail(fin, fin.player_number)) = 2
    /\ \E d \in Directions :
          ~UnsafeMove(fin, <<d>>) /\ UnsafeMove(fin, <<d, "BOOST">>)
    /\ fout.w # {}
    /\ \A m \in fout.w : IsBoost(m) /\ ~UnsafeMove(fin, m)

=============================================================================
